---------------------------- MODULE Spec2Model ----------------------------
(***************************************************************************)
(* Model of CanvasService (src/unnamed/part_000): canvas CRUD, CRDT state  *)
(* lifecycle, duplication, entity-relation reconciliation and cascading    *)
(* node removal.  Every service method is a process whose steps are the    *)
(* method's await points; the relational store, the object store, the      *)
(* search index, the job queue and the collaboration server are the shared *)
(* state.                                                                  *)
(***************************************************************************)
EXTENDS Naturals, Sequences, FiniteSets, Bags, TLC

\* ------------------------------------------------------------------ bounds
\* Size of the pool genCanvasID draws fresh canvas ids from.
MaxCanvases == 2
\* Longest CRDT node list of a canvas in an initial state.
MaxNodes == 2
\* Length of the node lists entity nodes are removed from.
ListLen == 3
\* Most connections a collaboration document has before a session that is
\* never closed is added to them.
MaxSessions == 2

\* ----------------------------------------------------------------- domains
Procs == {"p1", "p2"}
Users == {"u1", "u2"}
Titles == {"A", "B"}
CanvasIds == 1..MaxCanvases
MinimapIds == {"m1", "m2"}

\* `undefined` for an optional request field.
Undef == "<undefined>"

\* Object-store keys.  NoKey is a null/empty key column.
NoKey == [kind |-> "none", id |-> 0, name |-> ""]
StateKey(canvasId) == [kind |-> "state", id |-> canvasId, name |-> ""]
MinimapKey(m) == [kind |-> "minimap", id |-> 0, name |-> m]
UndefKey == [kind |-> "undefined", id |-> 0, name |-> ""]
ObjectKeys == {StateKey(c) : c \in CanvasIds} \cup {MinimapKey(m) : m \in MinimapIds}

\* Entity ids: ids that exist before the run, and ids the downstream
\* duplication services hand out for the fork of node i of target canvas c.
NoEntity == <<"", 0, 0>>
Orig(k) == <<"e", k, 0>>
Forked(c, i) == <<"f", c, i>>
DuplicableTypes == {"document", "resource", "skillResponse"}

Node(type, entityId) == [type |-> type, entityId |-> entityId]
Entity(entityId, entityType) == [entityId |-> entityId, entityType |-> entityType]

\* ---------------------------------------------------------- Y.Doc (yjs)
\* A Y.Text is kept as the sequence of the strings inserted into it (its
\* content is their concatenation); a Y.Array as a sequence.
NewYDoc == [title |-> <<>>, nodes |-> <<>>, edges |-> <<>>]

\* delete(index, len): the elements index .. index + len - 1 (0-based) go;
\* of a range reaching past the end, the part that is there.
YDelete(arr, index, len) ==
    SubSeq(arr, 1, IF index < Len(arr) THEN index ELSE Len(arr))
        \o SubSeq(arr, index + len + 1, Len(arr))

YArrayInsert(arr, index, items) ==
    SubSeq(arr, 1, index) \o items \o SubSeq(arr, index + 1, Len(arr))

YTextInsert(text, index, str) ==
    IF str = "" THEN text ELSE YArrayInsert(text, index, <<str>>)

\* The text a Y.Text of one insertion (or none) reads as.
TextOf(str) == IF str = "" THEN <<>> ELSE <<str>>

\* Blobs of the object store.
NoBlob == [kind |-> "missing", title |-> <<>>, nodes |-> <<>>, edges |-> <<>>]
EmptyBlob == [kind |-> "empty", title |-> <<>>, nodes |-> <<>>, edges |-> <<>>]
CorruptBlob == [kind |-> "corrupt", title |-> <<>>, nodes |-> <<>>, edges |-> <<>>]
ImageBlob == [kind |-> "image", title |-> <<>>, nodes |-> <<>>, edges |-> <<>>]

\* Buffer.from(Y.encodeStateAsUpdate(doc))
EncodeStateAsUpdate(doc) ==
    [kind |-> "doc", title |-> doc.title, nodes |-> doc.nodes, edges |-> doc.edges]

\* A decoder that takes any bytes there are.
DecodableAnyBytes(blob) == blob.kind \in {"doc", "corrupt", "image"}

\* Y.applyUpdate(new Y.Doc(), state) succeeds on an encoded document only.
Decodable(blob) == blob.kind = "doc"
ApplyUpdate(blob) == [title |-> blob.title, nodes |-> blob.nodes, edges |-> blob.edges]

\* ------------------------------------------------------------------ state
VARIABLES
    canvases,      \* prisma.canvas: canvasId -> row
    relations,     \* prisma.canvasEntityRelation: bag of rows
    dupRecords,    \* prisma.duplicateRecord: sequence of rows (pk = index)
    userRows,      \* prisma.user: uids that have a row
    objects,       \* minio: key -> blob
    esIndex,       \* elasticsearch canvas index: canvasId -> entry
    queue,         \* deleteKnowledgeQueue: set of jobs
    collab,        \* collaboration server: canvasId -> open document
    entities,      \* downstream entities (documents, resources, action results)
    calls          \* one service call per process: its position and locals

vars == <<canvases, relations, dupRecords, userRows, objects, esIndex, queue,
          collab, entities, calls>>

\* Everything but the calls.
shared == <<canvases, relations, dupRecords, userRows, objects, esIndex, queue,
            collab, entities>>

NoCanvas == [present |-> FALSE]
CanvasRow(uid, canvasId, title, status, key) ==
    [present |-> TRUE, uid |-> uid, canvasId |-> canvasId, title |-> title,
     status |-> status, stateStorageKey |-> key, minimapStorageKey |-> NoKey,
     deleted |-> FALSE]

NoEntry == [present |-> FALSE]
IndexEntry(title, uid) == [present |-> TRUE, title |-> title, uid |-> uid]

\* A document the collaboration server holds open, with its connections.
Closed == [open |-> FALSE]

Idle == [op |-> "idle", pc |-> "idle"]

Running(p) == calls[p].pc \notin {"idle", "done", "failed"}
Free(p) == ~Running(p)

\* A call ends: its locals are dropped, what it returned or raised is kept.
Return(call, result) == [op |-> call.op, pc |-> "done", result |-> result]
Throw(call, error) == [op |-> call.op, pc |-> "failed", error |-> error]

Live(row) == row.present /\ ~row.deleted

\* The lookup without the owner filter.
FindCanvasAnyOwner(canvasId, uid) ==
    IF Live(canvases[canvasId]) THEN canvases[canvasId] ELSE NoCanvas

\* prisma.canvas.findFirst({ where: { canvasId, uid, deletedAt: null } })
FindCanvas(canvasId, uid) ==
    IF Live(canvases[canvasId]) /\ canvases[canvasId].uid = uid
    THEN canvases[canvasId] ELSE NoCanvas

\* genCanvasID(): an id no canvas row has.
FreshIds == {c \in CanvasIds : ~canvases[c].present}
GenCanvasID == CHOOSE c \in FreshIds : \A d \in FreshIds : c <= d

\* ------------------------------------------------------------ listCanvases
\* The listing without the deletedAt filter.
ListResultAll(uid) ==
    {c \in CanvasIds : canvases[c].present /\ canvases[c].uid = uid}

\* The listing served from the search index: the live rows that have an entry.
ListResultIndexed(uid) ==
    {c \in CanvasIds : /\ Live(canvases[c]) /\ canvases[c].uid = uid
                       /\ esIndex[c].present}

\* findMany({ where: { uid, deletedAt: null } })
ListResult(uid) == {c \in CanvasIds : Live(canvases[c]) /\ canvases[c].uid = uid}

ListCanvases(p, uid) ==
    /\ Free(p)
    /\ calls' = [calls EXCEPT ![p] =
          [op |-> "listCanvases", pc |-> "done", result |-> ListResult(uid)]]
    /\ UNCHANGED <<canvases, relations, dupRecords, userRows, objects, esIndex,
                   queue, collab, entities>>

\* --------------------------------------------------------- getCanvasDetail
GetCanvasDetail(p, uid, canvasId) ==
    LET req == [uid |-> uid, canvasId |-> canvasId]
        call == [op |-> "getCanvasDetail", req |-> req]
        canvas == FindCanvas(canvasId, uid)
    IN  /\ Free(p)
        /\ calls' = [calls EXCEPT ![p] =
              IF ~canvas.present THEN Throw(call, "NotFound")
              ELSE Return(call, canvas)]
        /\ UNCHANGED <<canvases, relations, dupRecords, userRows, objects,
                       esIndex, queue, collab, entities>>

\* ----------------------------------------------------------- getCanvasYDoc
\* null when the key is empty, the object is missing or empty, or the
\* update cannot be applied; the decoded document otherwise.
NullDoc == [isNull |-> TRUE, doc |-> NewYDoc]
GetCanvasYDoc(stateStorageKey) ==
    IF stateStorageKey = NoKey THEN NullDoc
    ELSE IF ~Decodable(objects[stateStorageKey]) THEN NullDoc
    ELSE [isNull |-> FALSE, doc |-> ApplyUpdate(objects[stateStorageKey])]

\* -------------------------------------------------------- getCanvasRawData
GetCanvasRawDataFind(p, uid, canvasId) ==
    LET req == [uid |-> uid, canvasId |-> canvasId]
        call == [op |-> "getCanvasRawData", req |-> req]
        canvas == FindCanvas(canvasId, uid)
    IN  /\ Free(p)
        /\ calls' = [calls EXCEPT ![p] =
              IF ~canvas.present THEN Throw(call, "NotFound")
              ELSE [op |-> "getCanvasRawData", pc |-> "getCanvasYDoc", req |-> req,
                    canvas |-> canvas]]
        /\ UNCHANGED <<canvases, relations, dupRecords, userRows, objects,
                       esIndex, queue, collab, entities>>

RawData(canvas, ydoc) ==
    [title |-> canvas.title,
     nodes |-> IF ydoc.isNull THEN <<>> ELSE ydoc.doc.nodes,
     edges |-> IF ydoc.isNull THEN <<>> ELSE ydoc.doc.edges,
     ownerUid |-> canvas.uid,
     minimap |-> canvas.minimapStorageKey]

\* What getCanvasRawData(uid, canvasId) returns when nothing runs between
\* its row lookup and its load of the document.
RawDataOf(uid, canvasId) ==
    LET canvas == FindCanvas(canvasId, uid)
    IN  RawData(canvas, GetCanvasYDoc(canvas.stateStorageKey))

GetCanvasRawDataLoad(p) ==
    LET call == calls[p] IN
    /\ call.op = "getCanvasRawData" /\ call.pc = "getCanvasYDoc"
    /\ calls' = [calls EXCEPT ![p] =
          Return(call, RawData(call.canvas, GetCanvasYDoc(call.canvas.stateStorageKey)))]
    /\ UNCHANGED <<canvases, relations, dupRecords, userRows, objects, esIndex,
                   queue, collab, entities>>


\* ------------------------------------------------- collaboration server
\* collabService.openDirectConnection(canvasId, { entity }): the document
\* is loaded from the entity's state blob unless it is open already; every
\* connection to a canvas shares the one open document.
LoadDocument(entity) ==
    LET ydoc == GetCanvasYDoc(entity.stateStorageKey)
    IN  IF ydoc.isNull THEN NewYDoc ELSE ydoc.doc

OpenDirectConnection(canvasId, entity) ==
    IF collab[canvasId].open
    THEN [collab[canvasId] EXCEPT !.conns = @ + 1]
    ELSE [open |-> TRUE, doc |-> LoadDocument(entity), conns |-> 1,
          key |-> entity.stateStorageKey]

\* connection.disconnect(): the last connection to close stores the
\* document under the state key and unloads it.
DisconnectCollab(canvasId) ==
    IF collab[canvasId].conns > 1
    THEN [collab EXCEPT ![canvasId].conns = @ - 1]
    ELSE [collab EXCEPT ![canvasId] = Closed]

DisconnectObjects(canvasId) ==
    IF collab[canvasId].conns > 1 \/ collab[canvasId].key = NoKey
    THEN objects
    ELSE [objects EXCEPT ![collab[canvasId].key] = EncodeStateAsUpdate(collab[canvasId].doc)]

\* ------------------------------------------------------------ createCanvas
\* Status of a canvas row inserted without one (the column default).
DefaultStatus == "ready"

\* The document createCanvas builds: ydoc.getText('title').insert(0, title)
CreatedYDoc(title) == [NewYDoc EXCEPT !.title = YTextInsert(@, 0, title)]

\* The row inserted with the title left out.
CreatedRowUntitled(uid, canvasId, title) ==
    CanvasRow(uid, canvasId, "", DefaultStatus, StateKey(canvasId))

\* The row createCanvas inserts.
CreatedRow(uid, canvasId, title) ==
    CanvasRow(uid, canvasId, title, DefaultStatus, StateKey(canvasId))

CreateCanvasInsert(p, uid, title) ==
    /\ Free(p)
    /\ FreshIds # {}
    /\ LET canvasId == GenCanvasID
           canvas == CreatedRow(uid, canvasId, title)
       IN  /\ canvases' = [canvases EXCEPT ![canvasId] = canvas]
           /\ calls' = [calls EXCEPT ![p] =
                 [op |-> "createCanvas", pc |-> "saveCanvasYDoc",
                  req |-> [uid |-> uid, title |-> title],
                  canvasId |-> canvasId, canvas |-> canvas]]
    /\ UNCHANGED <<relations, dupRecords, userRows, objects, esIndex, queue,
                   collab, entities>>

CreateCanvasSave(p) ==
    LET call == calls[p] IN
    /\ call.op = "createCanvas" /\ call.pc = "saveCanvasYDoc"
    /\ objects' = [objects EXCEPT ![call.canvas.stateStorageKey] =
                      EncodeStateAsUpdate(CreatedYDoc(call.req.title))]
    /\ calls' = [calls EXCEPT ![p].pc = "upsertCanvas"]
    /\ UNCHANGED <<canvases, relations, dupRecords, userRows, esIndex, queue,
                   collab, entities>>

CreateCanvasIndex(p) ==
    LET call == calls[p] IN
    /\ call.op = "createCanvas" /\ call.pc = "upsertCanvas"
    /\ esIndex' = [esIndex EXCEPT ![call.canvasId] =
                      IndexEntry(call.canvas.title, call.canvas.uid)]
    /\ calls' = [calls EXCEPT ![p] = Return(call, call.canvas)]
    /\ UNCHANGED <<canvases, relations, dupRecords, userRows, objects, queue,
                   collab, entities>>

\* elasticsearch.upsertCanvas rejects: createCanvas raises.
CreateCanvasIndexFail(p) ==
    LET call == calls[p] IN
    /\ call.op = "createCanvas" /\ call.pc = "upsertCanvas"
    /\ calls' = [calls EXCEPT ![p] =
          [op |-> "createCanvas", pc |-> "failed", error |-> "Error",
           canvasId |-> call.canvasId]]
    /\ UNCHANGED shared

\* ------------------------------------------------------------ updateCanvas
\* The position after the relational update, and after each later step.
UpdateAfterRow(req) ==
    IF req.title # Undef THEN "openDirectConnection" ELSE "checkMinimap"

\* The test that looks at the previous minimap only.
UpdateRemovesMinimapAlways(originalMinimap, minimapStorageKey) ==
    originalMinimap # NoKey

\* originalMinimap && minimapStorageKey !== undefined
\*     && minimapStorageKey !== originalMinimap
UpdateRemovesMinimap(originalMinimap, minimapStorageKey) ==
    /\ originalMinimap # NoKey
    /\ minimapStorageKey # UndefKey
    /\ minimapStorageKey # originalMinimap

UpdateAfterSession(call) ==
    IF UpdateRemovesMinimap(call.originalMinimap, call.req.minimapStorageKey)
    THEN "removeObject" ELSE "upsertCanvas"

\* updateCanvas ends.  Called by autoNameCanvas (caller is its request), the
\* caller returns { title: newTitle } or raises in turn.
NoCaller == [op |-> "none"]

UpdateReturn(call) ==
    IF call.caller = NoCaller THEN Return(call, call.updatedCanvas)
    ELSE [op |-> "autoNameCanvas", pc |-> "done",
          result |-> [title |-> call.req.title], modelCalls |-> 2, updated |-> TRUE]

UpdateThrow(call, error) ==
    IF call.caller = NoCaller THEN Throw(call, error)
    ELSE [op |-> "autoNameCanvas", pc |-> "failed", error |-> error]

\* findUnique({ where: { canvasId, uid, deletedAt: null } })
UpdateFound(req, caller) ==
    LET call == [op |-> "updateCanvas", req |-> req, caller |-> caller]
        canvas == FindCanvas(req.canvasId, req.uid)
    IN  IF ~canvas.present THEN UpdateThrow(call, "NotFound")
        ELSE [op |-> "updateCanvas", pc |-> "update", req |-> req,
              caller |-> caller,
              originalMinimap |-> canvas.minimapStorageKey,
              updatedCanvas |-> NoCanvas]

UpdateCanvasFind(p, uid, canvasId, title, minimapStorageKey) ==
    LET req == [uid |-> uid, canvasId |-> canvasId, title |-> title,
                minimapStorageKey |-> minimapStorageKey]
    IN  /\ Free(p)
        /\ calls' = [calls EXCEPT ![p] = UpdateFound(req, NoCaller)]
        /\ UNCHANGED shared

\* data: updates
UpdatedRow(row, req) ==
    [row EXCEPT
        !.title = IF req.title # Undef THEN req.title ELSE @,
        !.minimapStorageKey =
            IF req.minimapStorageKey # UndefKey THEN req.minimapStorageKey ELSE @]

\* prisma.$transaction: canvas.update where { canvasId, uid, deletedAt: null }
\* raises when no row matches.
UpdateCanvasRow(p) ==
    LET call == calls[p]
        req == call.req
        canvas == FindCanvas(req.canvasId, req.uid)
        updated == UpdatedRow(canvas, req)
    IN  /\ call.op = "updateCanvas" /\ call.pc = "update"
        /\ IF ~canvas.present
           THEN /\ calls' = [calls EXCEPT ![p] = UpdateThrow(call, "Error")]
                /\ UNCHANGED canvases
           ELSE /\ canvases' = [canvases EXCEPT ![req.canvasId] = updated]
                /\ calls' = [calls EXCEPT ![p] =
                      [call EXCEPT !.updatedCanvas = updated,
                                   !.pc = IF UpdateAfterRow(req) = "checkMinimap"
                                          THEN UpdateAfterSession(call)
                                          ELSE UpdateAfterRow(req)]]
        /\ UNCHANGED <<relations, dupRecords, userRows, objects, esIndex, queue,
                       collab, entities>>

\* The relational update fails: nothing is written, updateCanvas raises.
UpdateCanvasRowFail(p) ==
    LET call == calls[p] IN
    /\ call.op = "updateCanvas" /\ call.pc = "update"
    /\ calls' = [calls EXCEPT ![p] = UpdateThrow(call, "Error")]
    /\ UNCHANGED shared

\* The transact block inserting the title without deleting the old one.
SetTitleInserted(doc, title) ==
    [doc EXCEPT !.title = YTextInsert(doc.title, 0, title)]

\* connection.document.transact: title.delete(0, title.length);
\* title.insert(0, param.title)
SetTitle(doc, title) ==
    [doc EXCEPT !.title = YTextInsert(YDelete(doc.title, 0, Len(doc.title)), 0, title)]

\* The session opens and the transact block runs in the same turn.
UpdateCanvasTransact(p) ==
    LET call == calls[p]
        canvasId == call.req.canvasId
        conn == OpenDirectConnection(canvasId, call.updatedCanvas)
    IN  /\ call.op = "updateCanvas" /\ call.pc = "openDirectConnection"
        /\ collab' = [collab EXCEPT ![canvasId] =
                         [conn EXCEPT !.doc = SetTitle(conn.doc, call.req.title)]]
        /\ calls' = [calls EXCEPT ![p].pc = "disconnect"]
        /\ UNCHANGED <<canvases, relations, dupRecords, userRows, objects,
                       esIndex, queue, entities>>

\* The transact block raises: the session is open, nothing closes it
\* (there is no try/finally) and updateCanvas raises.
UpdateCanvasTransactFail(p) ==
    LET call == calls[p]
        canvasId == call.req.canvasId
        conn == OpenDirectConnection(canvasId, call.updatedCanvas)
    IN  /\ call.op = "updateCanvas" /\ call.pc = "openDirectConnection"
        /\ conn.conns <= MaxSessions
        /\ collab' = [collab EXCEPT ![canvasId] = conn]
        /\ calls' = [calls EXCEPT ![p] = UpdateThrow(call, "Error")]
        /\ UNCHANGED <<canvases, relations, dupRecords, userRows, objects,
                       esIndex, queue, entities>>

UpdateCanvasDisconnect(p) ==
    LET call == calls[p]
        canvasId == call.req.canvasId
    IN  /\ call.op = "updateCanvas" /\ call.pc = "disconnect"
        /\ collab' = DisconnectCollab(canvasId)
        /\ objects' = DisconnectObjects(canvasId)
        /\ calls' = [calls EXCEPT ![p].pc = UpdateAfterSession(call)]
        /\ UNCHANGED <<canvases, relations, dupRecords, userRows, esIndex,
                       queue, entities>>

UpdateCanvasRemoveMinimap(p) ==
    LET call == calls[p] IN
    /\ call.op = "updateCanvas" /\ call.pc = "removeObject"
    /\ objects' = [objects EXCEPT ![call.originalMinimap] = NoBlob]
    /\ calls' = [calls EXCEPT ![p].pc = "upsertCanvas"]
    /\ UNCHANGED <<canvases, relations, dupRecords, userRows, esIndex, queue,
                   collab, entities>>

UpdateCanvasIndex(p) ==
    LET call == calls[p] IN
    /\ call.op = "updateCanvas" /\ call.pc = "upsertCanvas"
    /\ esIndex' = [esIndex EXCEPT ![call.req.canvasId] =
                      IndexEntry(call.updatedCanvas.title, call.updatedCanvas.uid)]
    /\ calls' = [calls EXCEPT ![p] = UpdateReturn(call)]
    /\ UNCHANGED <<canvases, relations, dupRecords, userRows, objects, queue,
                   collab, entities>>

\* ------------------------------------------------------------ deleteCanvas
\* The rows of the canvas, the soft-deleted ones with them.
AllRelations(canvasId) == {r \in BagToSet(relations) : r.canvasId = canvasId}

\* prisma.canvasEntityRelation.findMany({ where: { canvasId, deletedAt: null } })
LiveRelations(canvasId) ==
    {r \in BagToSet(relations) : r.canvasId = canvasId /\ ~r.deleted}

\* Retry budget of a deletion job (attempts: 3).
JobAttempts == 3

\* deleteKnowledgeQueue.add('deleteKnowledgeEntity', data, { jobId, attempts })
DeleteJob(uid, entity) ==
    [jobId |-> entity.entityId, uid |-> uid, entityId |-> entity.entityId,
     entityType |-> entity.entityType, attempts |-> JobAttempts]

\* A job whose id is queued already is not added again.
QueueAdd(job) ==
    IF \E j \in queue : j.jobId = job.jobId THEN queue ELSE queue \cup {job}

\* The cleanups without the blob removal.
EagerCleanupsIndexOnly(canvas) == {"es"}

\* The cleanups started before Promise.all: the index delete and, when the
\* row has a state key, the blob removal.
EagerCleanups(canvas) ==
    {"es"} \cup (IF canvas.stateStorageKey # NoKey THEN {"blob"} ELSE {})

\* await Promise.all(cleanups) returns when the last cleanup has completed.
AfterCleanup(call, pending, jobs) ==
    IF pending = {} /\ jobs = {} /\ call.pc = "all"
    THEN Return(call, "void")
    ELSE [call EXCEPT !.pending = pending, !.jobs = jobs]

DeleteCanvasFind(p, uid, canvasId, deleteAllFiles) ==
    LET req == [uid |-> uid, canvasId |-> canvasId, deleteAllFiles |-> deleteAllFiles]
        call == [op |-> "deleteCanvas", req |-> req]
        canvas == FindCanvas(canvasId, uid)
    IN  /\ Free(p)
        /\ calls' = [calls EXCEPT ![p] =
              IF ~canvas.present THEN Throw(call, "NotFound")
              ELSE [op |-> "deleteCanvas", req |-> req, canvas |-> canvas,
                    pc |-> IF deleteAllFiles THEN "findRelations" ELSE "all",
                    pending |-> EagerCleanups(canvas) \cup
                                (IF deleteAllFiles THEN {} ELSE {"row"}),
                    jobs |-> {}]]
        /\ UNCHANGED shared

DeleteCanvasFindRelations(p) ==
    LET call == calls[p]
        found == {Entity(r.entityId, r.entityType) :
                     r \in LiveRelations(call.req.canvasId)}
    IN  /\ call.op = "deleteCanvas" /\ call.pc = "findRelations"
        /\ calls' = [calls EXCEPT ![p] =
              [call EXCEPT !.pc = "all", !.pending = @ \cup {"row"},
                           !.jobs = {DeleteJob(call.canvas.uid, e) : e \in found}]]
        /\ UNCHANGED shared

\* prisma.canvas.update({ where: { canvasId }, data: { deletedAt } })
DeleteCanvasRow(p) ==
    LET call == calls[p] IN
    /\ call.op = "deleteCanvas" /\ call.pc = "all"
    /\ "row" \in call.pending
    /\ canvases' = [canvases EXCEPT ![call.req.canvasId].deleted = TRUE]
    /\ calls' = [calls EXCEPT ![p] = AfterCleanup(call, call.pending \ {"row"}, call.jobs)]
    /\ UNCHANGED <<relations, dupRecords, userRows, objects, esIndex, queue,
                   collab, entities>>

\* elasticsearch.deleteCanvas(canvasId)
DeleteCanvasIndex(p) ==
    LET call == calls[p] IN
    /\ call.op = "deleteCanvas" /\ call.pc \in {"findRelations", "all"}
    /\ "es" \in call.pending
    /\ esIndex' = [esIndex EXCEPT ![call.req.canvasId] = NoEntry]
    /\ calls' = [calls EXCEPT ![p] = AfterCleanup(call, call.pending \ {"es"}, call.jobs)]
    /\ UNCHANGED <<canvases, relations, dupRecords, userRows, objects, queue,
                   collab, entities>>

\* minio.client.removeObject(canvas.stateStorageKey)
DeleteCanvasBlob(p) ==
    LET call == calls[p] IN
    /\ call.op = "deleteCanvas" /\ call.pc \in {"findRelations", "all"}
    /\ "blob" \in call.pending
    /\ objects' = [objects EXCEPT ![call.canvas.stateStorageKey] = NoBlob]
    /\ calls' = [calls EXCEPT ![p] = AfterCleanup(call, call.pending \ {"blob"}, call.jobs)]
    /\ UNCHANGED <<canvases, relations, dupRecords, userRows, esIndex, queue,
                   collab, entities>>

DeleteCanvasEnqueue(p) ==
    LET call == calls[p] IN
    /\ call.op = "deleteCanvas" /\ call.pc = "all"
    /\ \E job \in call.jobs :
          /\ queue' = QueueAdd(job)
          /\ calls' = [calls EXCEPT ![p] =
                          AfterCleanup(call, call.pending, call.jobs \ {job})]
    /\ UNCHANGED <<canvases, relations, dupRecords, userRows, objects, esIndex,
                   collab, entities>>

\* --------------------------------------------------------- duplicateCanvas
\* Ids reserved by duplications that have not inserted their target yet.
ReservedIds ==
    {calls[q].newCanvasId : q \in {r \in Procs : calls[r].op = "duplicateCanvas"
                                        /\ calls[r].pc = "createCanvas"}}

DupFreshIds == FreshIds \ ReservedIds
DupGenCanvasID == CHOOSE c \in DupFreshIds : \A d \in DupFreshIds : c <= d

\* The source lookup filtering by owner whatever checkOwnership says.
FindSourceOwned(canvasId, uid, checkOwnership) ==
    IF Live(canvases[canvasId]) /\ canvases[canvasId].uid = uid
    THEN canvases[canvasId] ELSE NoCanvas

\* where: { canvasId, deletedAt: null, uid: checkOwnership ? user.uid : undefined }
FindSource(canvasId, uid, checkOwnership) ==
    IF Live(canvases[canvasId]) /\ (checkOwnership => canvases[canvasId].uid = uid)
    THEN canvases[canvasId] ELSE NoCanvas

\* title || canvas.title
NewTitle(title, sourceTitle) ==
    IF title = Undef \/ title = "" THEN sourceTitle ELSE title

DuplicateCanvasFind(p, uid, canvasId, title, duplicateEntities, checkOwnership) ==
    LET req == [uid |-> uid, canvasId |-> canvasId, title |-> title,
                duplicateEntities |-> duplicateEntities,
                checkOwnership |-> checkOwnership]
        call == [op |-> "duplicateCanvas", req |-> req]
        canvas == FindSource(canvasId, uid, checkOwnership)
    IN  /\ Free(p)
        /\ DupFreshIds # {}
        /\ calls' = [calls EXCEPT ![p] =
              IF ~canvas.present THEN Throw(call, "NotFound")
              ELSE [op |-> "duplicateCanvas", pc |-> "createCanvas", req |-> req,
                    newCanvasId |-> DupGenCanvasID,
                    newTitle |-> NewTitle(title, canvas.title),
                    dupRecord |-> 0, sourceCanvas |-> NoCanvas, error |-> "",
                    doc |-> NewYDoc,
                    nodes |-> <<>>, forked |-> {}]]
        /\ UNCHANGED shared

\* The target row: status 'duplicating', state key of the new id.
TargetRow(uid, newCanvasId, newTitle) ==
    CanvasRow(uid, newCanvasId, newTitle, "duplicating", StateKey(newCanvasId))

DuplicateCanvasInsert(p) ==
    LET call == calls[p] IN
    /\ call.op = "duplicateCanvas" /\ call.pc = "createCanvas"
    /\ canvases' = [canvases EXCEPT ![call.newCanvasId] =
                       TargetRow(call.req.uid, call.newCanvasId, call.newTitle)]
    /\ calls' = [calls EXCEPT ![p].pc = "createRecord"]
    /\ UNCHANGED <<relations, dupRecords, userRows, objects, esIndex, queue,
                   collab, entities>>

NewDupRecord(uid, sourceId, targetId) ==
    [uid |-> uid, sourceId |-> sourceId, targetId |-> targetId,
     entityType |-> "canvas", status |-> "pending"]

DuplicateCanvasRecord(p) ==
    LET call == calls[p] IN
    /\ call.op = "duplicateCanvas" /\ call.pc = "createRecord"
    /\ dupRecords' = Append(dupRecords,
                        NewDupRecord(call.req.uid, call.req.canvasId, call.newCanvasId))
    /\ calls' = [calls EXCEPT ![p] =
                    [call EXCEPT !.pc = "findUser", !.dupRecord = Len(dupRecords) + 1]]
    /\ UNCHANGED <<canvases, relations, userRows, objects, esIndex, queue,
                   collab, entities>>

\* What duplicateCanvas returns: newCanvas, the row as it was inserted.
DupReturn(call) ==
    [op |-> "duplicateCanvas", pc |-> "done",
     result |-> TargetRow(call.req.uid, call.newCanvasId, call.newTitle),
     dupRecord |-> call.dupRecord]

\* _duplicateCanvas: an unknown uid is logged and the body returns.
DuplicateCanvasFindUser(p) ==
    LET call == calls[p] IN
    /\ call.op = "duplicateCanvas" /\ call.pc = "findUser"
    /\ calls' = [calls EXCEPT ![p] =
          IF call.req.uid \notin userRows THEN DupReturn(call)
          ELSE [call EXCEPT !.pc = "findSource"]]
    /\ UNCHANGED shared

\* The copy body raised: control is in the catch block of duplicateCanvas.
DupRaise(call, error) ==
    [call EXCEPT !.pc = "catch", !.error = error, !.sourceCanvas = NoCanvas,
                 !.doc = NewYDoc, !.nodes = <<>>, !.forked = {}]

\* if (sourceCanvas.uid !== user.uid)
DupAfterFork(call, sourceCanvas) ==
    IF sourceCanvas.uid # call.req.uid THEN "duplicateFiles" ELSE "putObject"

\* pLimit(5): most entity duplications running at once.
ForkLimit == 5

\* The node indices whose task has been started when `done` have finished:
\* the first ForkLimit, and one more for every task that finished.
ForkStarted(nodes, done) ==
    {i \in 1..Len(nodes) : i <= ForkLimit + Cardinality(done)}

\* A task on a node of another type awaits nothing and finishes at once.
RECURSIVE ForkSettle(_, _)
ForkSettle(nodes, done) ==
    LET instant == {i \in ForkStarted(nodes, done) \ done :
                       nodes[i].type \notin DuplicableTypes}
    IN  IF instant = {} THEN done ELSE ForkSettle(nodes, done \cup instant)

ForkInFlight(nodes, done) == ForkStarted(nodes, done) \ done

\* The position after the source document is loaded.
DupAfterLoad(call, sourceCanvas, nodes) ==
    IF call.req.duplicateEntities /\ ForkSettle(nodes, {}) # 1..Len(nodes)
    THEN "fork" ELSE DupAfterFork(call, sourceCanvas)

\* prisma.canvas.findFirst({ where: { canvasId: sourceCanvasId, deletedAt: null } })
\* then, with no state key, the empty document is the source document.
DuplicateCanvasFindSource(p) ==
    LET call == calls[p]
        sourceCanvas == canvases[call.req.canvasId]
    IN  /\ call.op = "duplicateCanvas" /\ call.pc = "findSource"
        /\ calls' = [calls EXCEPT ![p] =
              IF ~Live(sourceCanvas) THEN DupRaise(call, "NotFound")
              ELSE IF sourceCanvas.stateStorageKey # NoKey
                   THEN [call EXCEPT !.pc = "getObject", !.sourceCanvas = sourceCanvas]
                   ELSE [call EXCEPT !.pc = DupAfterLoad(call, sourceCanvas, <<>>),
                                     !.sourceCanvas = sourceCanvas]]
        /\ UNCHANGED shared

\* getObject, streamToBuffer, Y.applyUpdate: raises on a missing, empty or
\* undecodable object.  nodes = doc.getArray('nodes').toJSON()
DuplicateCanvasLoad(p) ==
    LET call == calls[p]
        state == objects[call.sourceCanvas.stateStorageKey]
        doc == ApplyUpdate(state)
    IN  /\ call.op = "duplicateCanvas" /\ call.pc = "getObject"
        /\ calls' = [calls EXCEPT ![p] =
              IF ~Decodable(state) THEN DupRaise(call, "Error")
              ELSE [call EXCEPT !.doc = doc, !.nodes = doc.nodes,
                                !.forked = ForkSettle(doc.nodes, {}),
                                !.pc = DupAfterLoad(call, call.sourceCanvas, doc.nodes)]]
        /\ UNCHANGED shared

\* duplicateDocument / duplicateResource / duplicateActionResult: the entity
\* the downstream service creates and returns; an action result is created
\* with the target canvas as its target.
ForkedEntity(newId, node, targetCanvasId) ==
    [entityId |-> newId, entityType |-> node.type, forkOf |-> node.entityId,
     targetId |-> IF node.type = "skillResponse" THEN targetCanvasId ELSE 0]

\* The node left pointing at the entity it was copied from.
ForkNodeKept(node, result) == node

\* if (doc) { node.data.entityId = doc.docId } and its two siblings
ForkNode(node, result) ==
    IF result.entityId = NoEntity THEN node
    ELSE [node EXCEPT !.entityId = result.entityId]

DuplicateCanvasFork(p) ==
    LET call == calls[p] IN
    /\ call.op = "duplicateCanvas" /\ call.pc = "fork"
    /\ \E i \in ForkInFlight(call.nodes, call.forked) :
          LET result == ForkedEntity(Forked(call.newCanvasId, i), call.nodes[i],
                                     call.newCanvasId)
              done == ForkSettle(call.nodes, call.forked \cup {i})
          IN  /\ entities' = entities \cup {result}
              /\ calls' = [calls EXCEPT ![p] =
                    [call EXCEPT !.nodes[i] = ForkNode(@, result), !.forked = done,
                                 !.pc = IF done = 1..Len(call.nodes)
                                        THEN DupAfterFork(call, call.sourceCanvas)
                                        ELSE "fork"]]
    /\ UNCHANGED <<canvases, relations, dupRecords, userRows, objects, esIndex,
                   queue, collab>>

\* miscService.duplicateFilesNoCopy: links the source's files to the target.
DuplicateCanvasLinkFiles(p) ==
    LET call == calls[p] IN
    /\ call.op = "duplicateCanvas" /\ call.pc = "duplicateFiles"
    /\ calls' = [calls EXCEPT ![p].pc = "putObject"]
    /\ UNCHANGED shared

\* The transaction inserting without deleting what the document holds.
TargetYDocInserted(doc, title, nodes) ==
    [doc EXCEPT !.title = YTextInsert(doc.title, 0, title),
                !.nodes = YArrayInsert(doc.nodes, 0, nodes)]

\* doc.transact: the title text and the node array are replaced.
TargetYDoc(doc, title, nodes) ==
    [doc EXCEPT
        !.title = YTextInsert(YDelete(doc.title, 0, Len(doc.title)), 0, title),
        !.nodes = YArrayInsert(YDelete(doc.nodes, 0, Len(doc.nodes)), 0, nodes)]

\* The copy stored under the state key of the source.
DuplicateCanvasPutToSource(p) ==
    LET call == calls[p] IN
    /\ call.op = "duplicateCanvas" /\ call.pc = "putObject"
    /\ objects' = [objects EXCEPT ![call.sourceCanvas.stateStorageKey] =
          EncodeStateAsUpdate(TargetYDoc(call.doc, call.newTitle, call.nodes))]
    /\ calls' = [calls EXCEPT ![p].pc = "transaction"]
    /\ UNCHANGED <<canvases, relations, dupRecords, userRows, esIndex, queue,
                   collab, entities>>

DuplicateCanvasPut(p) ==
    LET call == calls[p] IN
    /\ call.op = "duplicateCanvas" /\ call.pc = "putObject"
    /\ objects' = [objects EXCEPT ![StateKey(call.newCanvasId)] =
          EncodeStateAsUpdate(TargetYDoc(call.doc, call.newTitle, call.nodes))]
    /\ calls' = [calls EXCEPT ![p].pc = "transaction"]
    /\ UNCHANGED <<canvases, relations, dupRecords, userRows, esIndex, queue,
                   collab, entities>>

\* The two updates of the final transaction committed one by one: the row
\* is ready, the record not yet finish.
DuplicateCanvasFinishRowFirst(p) ==
    LET call == calls[p] IN
    /\ call.op = "duplicateCanvas" /\ call.pc = "transaction"
    /\ canvases[call.newCanvasId].status # "ready"
    /\ canvases' = [canvases EXCEPT ![call.newCanvasId].status = "ready"]
    /\ UNCHANGED <<relations, dupRecords, userRows, objects, esIndex, queue,
                   collab, entities, calls>>

\* prisma.$transaction: canvas.status = 'ready', duplicateRecord.status = 'finish'
DuplicateCanvasFinish(p) ==
    LET call == calls[p] IN
    /\ call.op = "duplicateCanvas" /\ call.pc = "transaction"
    /\ canvases' = [canvases EXCEPT ![call.newCanvasId].status = "ready"]
    /\ dupRecords' = [dupRecords EXCEPT ![call.dupRecord].status = "finish"]
    /\ calls' = [calls EXCEPT ![p] = DupReturn(call)]
    /\ UNCHANGED <<relations, userRows, objects, esIndex, queue, collab, entities>>

\* The awaited call of the copy body the process is at rejects.
DupBodySteps == {"findUser", "findSource", "getObject", "fork", "duplicateFiles",
                 "putObject", "transaction"}

DuplicateCanvasBodyFail(p) ==
    LET call == calls[p] IN
    /\ call.op = "duplicateCanvas" /\ call.pc \in DupBodySteps
    /\ calls' = [calls EXCEPT ![p] = DupRaise(call, "Error")]
    /\ UNCHANGED shared

\* The record left as it is by the handler.
CaughtRecordKept(record) == record

\* catch: duplicateRecord.update({ where: { pk }, data: { status: 'failed' } })
CaughtRecord(record) == [record EXCEPT !.status = "failed"]

\* catch: the record is marked failed; throw error
DuplicateCanvasCatch(p) ==
    LET call == calls[p] IN
    /\ call.op = "duplicateCanvas" /\ call.pc = "catch"
    /\ dupRecords' = [dupRecords EXCEPT ![call.dupRecord] = CaughtRecord(@)]
    /\ calls' = [calls EXCEPT ![p] =
          [op |-> "duplicateCanvas", pc |-> "failed", error |-> call.error,
           newCanvasId |-> call.newCanvasId, dupRecord |-> call.dupRecord]]
    /\ UNCHANGED <<canvases, relations, userRows, objects, esIndex, queue,
                   collab, entities>>

\* ------------------------------------------------- canvasEntityRelation
Relation(canvasId, entityId, entityType) ==
    [canvasId |-> canvasId, entityId |-> entityId, entityType |-> entityType,
     deleted |-> FALSE]

\* updateMany({ where: ..., data: { deletedAt: new Date() } }) on the live
\* rows `rows`.  Rows that are soft-deleted are read by no query: one copy
\* of each is kept.
SoftDelete(rows) ==
    LET kept == BagToSet(relations) \ rows
        gone == {[r EXCEPT !.deleted = TRUE] : r \in rows}
    IN  [r \in kept \cup gone |-> IF r \in gone THEN 1 ELSE relations[r]]

\* createMany({ data: rows, skipDuplicates: true }): one row per element
\* (no column of a relation row but its key is unique).
CreateMany(rows) ==
    LET new == {rows[i] : i \in 1..Len(rows)}
    IN  [r \in BagToSet(relations) \cup new |->
            (IF r \in BagToSet(relations) THEN relations[r] ELSE 0)
            + Cardinality({i \in 1..Len(rows) : rows[i] = r})]

\* ------------------------------------------------ syncCanvasEntityRelation
\* nodes.map(node => ({ entityId, entityType })).filter(e => e.entityId && e.entityType)
RECURSIVE NodeEntities(_)
NodeEntities(nodes) ==
    IF nodes = <<>> THEN <<>>
    ELSE LET node == Head(nodes)
             rest == NodeEntities(Tail(nodes))
         IN  IF node.entityId # NoEntity /\ node.type # ""
             THEN <<Entity(node.entityId, node.type)>> \o rest ELSE rest

\* collabService.loadDocument: the document the collaboration server holds
\* open for the canvas, or the stored one.
LoadedYDoc(canvas, canvasId) ==
    IF collab[canvasId].open THEN collab[canvasId].doc ELSE LoadDocument(canvas)

SyncFind(p, canvasId) ==
    LET req == [canvasId |-> canvasId]
        call == [op |-> "syncCanvasEntityRelation", req |-> req]
        canvas == canvases[canvasId]
    IN  /\ Free(p)
        /\ calls' = [calls EXCEPT ![p] =
              IF ~canvas.present THEN Throw(call, "NotFound")
              ELSE [op |-> "syncCanvasEntityRelation", pc |-> "loadDocument",
                    req |-> req, canvas |-> canvas, found |-> <<>>,
                    toRemove |-> {}, toCreate |-> <<>>, pending |-> {}]]
        /\ UNCHANGED shared

SyncLoad(p) ==
    LET call == calls[p] IN
    /\ call.op = "syncCanvasEntityRelation" /\ call.pc = "loadDocument"
    /\ calls' = [calls EXCEPT ![p] =
          [call EXCEPT !.pc = "findMany",
                       !.found = NodeEntities(LoadedYDoc(call.canvas, call.req.canvasId).nodes)]]
    /\ UNCHANGED shared

\* existingRelations.filter(relation => !entityIds.has(relation.entityId))
RelationsToRemove(existing, found) ==
    {r \in existing : \A i \in 1..Len(found) : found[i].entityId # r.entityId}

\* entities.filter(entity => !existingEntityIds.has(entity.entityId))
RelationsToCreate(existing, found) ==
    SelectSeq(found, LAMBDA e : \A r \in existing : r.entityId # e.entityId)

SyncFindRelations(p) ==
    LET call == calls[p]
        existing == LiveRelations(call.req.canvasId)
    IN  /\ call.op = "syncCanvasEntityRelation" /\ call.pc = "findMany"
        /\ calls' = [calls EXCEPT ![p] =
              [call EXCEPT !.pc = "all", !.pending = {"updateMany", "createMany"},
                           !.found = <<>>,
                           !.toRemove = {r.entityId : r \in RelationsToRemove(existing, call.found)},
                           !.toCreate = RelationsToCreate(existing, call.found)]]
        /\ UNCHANGED shared

SyncAfter(call, pending) ==
    IF pending = {} THEN Return(call, "void") ELSE [call EXCEPT !.pending = pending]

\* where: { canvasId, entityId: { in: relationsToRemove ids }, deletedAt: null }
SyncSoftDelete(p) ==
    LET call == calls[p]
        rows == {r \in LiveRelations(call.req.canvasId) : r.entityId \in call.toRemove}
    IN  /\ call.op = "syncCanvasEntityRelation" /\ call.pc = "all"
        /\ "updateMany" \in call.pending
        /\ relations' = SoftDelete(rows)
        /\ calls' = [calls EXCEPT ![p] = SyncAfter(call, call.pending \ {"updateMany"})]
        /\ UNCHANGED <<canvases, dupRecords, userRows, objects, esIndex, queue,
                       collab, entities>>

NewRelations(canvasId, toCreate) ==
    [i \in 1..Len(toCreate) |->
        Relation(canvasId, toCreate[i].entityId, toCreate[i].entityType)]

SyncCreate(p) ==
    LET call == calls[p] IN
    /\ call.op = "syncCanvasEntityRelation" /\ call.pc = "all"
    /\ "createMany" \in call.pending
    /\ relations' = CreateMany(NewRelations(call.req.canvasId, call.toCreate))
    /\ calls' = [calls EXCEPT ![p] = SyncAfter(call, call.pending \ {"createMany"})]
    /\ UNCHANGED <<canvases, dupRecords, userRows, objects, esIndex, queue,
                   collab, entities>>

\* ------------------------------------------- deleteEntityNodesFromCanvases
\* where: { entityId: { in: ids }, entityType: { in: types }, deletedAt: null }
EntityRelations(given) ==
    {r \in BagToSet(relations) :
        /\ ~r.deleted
        /\ r.entityId \in {e.entityId : e \in given}
        /\ r.entityType \in {e.entityType : e \in given}}

\* entities.find(e => e.entityId === entityId && e.entityType === entityType)
Matches(node, given) ==
    /\ node.entityId # NoEntity /\ node.type # ""
    /\ \E e \in given : e.entityId = node.entityId /\ e.entityType = node.type

\* nodes.forEach: the (0-based) indices of the matching nodes, ascending.
RECURSIVE ToRemove(_, _, _)
ToRemove(nodes, given, index) ==
    IF index >= Len(nodes) THEN <<>>
    ELSE (IF Matches(nodes[index + 1], given) THEN <<index>> ELSE <<>>)
         \o ToRemove(nodes, given, index + 1)

Reverse(seq) == [i \in 1..Len(seq) |-> seq[Len(seq) + 1 - i]]

\* for (const index of toRemove) nodes.delete(index, 1)
RECURSIVE DeleteEach(_, _)
DeleteEach(nodes, indices) ==
    IF indices = <<>> THEN nodes
    ELSE DeleteEach(YDelete(nodes, Head(indices), 1), Tail(indices))

\* The indices left in ascending order.
RemovalOrderAscending(toRemove) == toRemove

\* The transact block: toRemove.reverse(), then the deletions.
RemovalOrder(toRemove) == Reverse(toRemove)

RemoveEntityNodes(nodes, given) ==
    DeleteEach(nodes, RemovalOrder(ToRemove(nodes, given, 0)))

\* pLimit(3): most canvases processed at once.
CanvasLimit == 3

\* Every task started at once, as by Promise.all alone.
DenStartedAll(tasks) == DOMAIN tasks

\* Tasks run in the order of canvasIds; a finished task starts the next.
DenStarted(tasks) ==
    LET done == {c \in DOMAIN tasks : tasks[c] = "done"}
    IN  {c \in DOMAIN tasks :
            Cardinality({d \in DOMAIN tasks : d < c}) < CanvasLimit + Cardinality(done)}

DenAfter(call, tasks) ==
    IF \A c \in DOMAIN tasks : tasks[c] = "done"
    THEN Return(call, "void")
    ELSE [call EXCEPT !.tasks = tasks]

DeleteEntityNodesFind(p, given) ==
    LET req == [entities |-> given]
        call == [op |-> "deleteEntityNodesFromCanvases", req |-> req]
        canvasIds == {r.canvasId : r \in EntityRelations(given)}
    IN  /\ Free(p)
        /\ calls' = [calls EXCEPT ![p] =
              IF canvasIds = {} THEN Return(call, "void")
              ELSE [op |-> "deleteEntityNodesFromCanvases", pc |-> "all",
                    req |-> req, tasks |-> [c \in canvasIds |-> "findUnique"]]]
        /\ UNCHANGED shared

DenTask(p, canvasId, step) ==
    /\ calls[p].op = "deleteEntityNodesFromCanvases" /\ calls[p].pc = "all"
    /\ canvasId \in DenStarted(calls[p].tasks)
    /\ calls[p].tasks[canvasId] = step

\* prisma.canvas.findUnique({ where: { canvasId } }); if (!canvas) return
DeleteEntityNodesFindCanvas(p, canvasId) ==
    LET call == calls[p] IN
    /\ DenTask(p, canvasId, "findUnique")
    /\ calls' = [calls EXCEPT ![p] =
          DenAfter(call, [call.tasks EXCEPT ![canvasId] =
              IF canvases[canvasId].present THEN "openDirectConnection" ELSE "done"])]
    /\ UNCHANGED shared

\* The session opens and the transact block runs in the same turn.
DeleteEntityNodesTransact(p, canvasId) ==
    LET call == calls[p]
        conn == OpenDirectConnection(canvasId, canvases[canvasId])
    IN  /\ DenTask(p, canvasId, "openDirectConnection")
        /\ collab' = [collab EXCEPT ![canvasId] =
              [conn EXCEPT !.doc.nodes = RemoveEntityNodes(@, call.req.entities)]]
        /\ calls' = [calls EXCEPT ![p].tasks[canvasId] = "disconnect"]
        /\ UNCHANGED <<canvases, relations, dupRecords, userRows, objects,
                       esIndex, queue, entities>>

\* The transact block of the last task raises: its session is open, nothing
\* closes it and the call raises.
DeleteEntityNodesTransactFail(p, canvasId) ==
    LET call == calls[p]
        conn == OpenDirectConnection(canvasId, canvases[canvasId])
    IN  /\ DenTask(p, canvasId, "openDirectConnection")
        /\ \A d \in DOMAIN call.tasks \ {canvasId} : call.tasks[d] = "done"
        /\ conn.conns <= MaxSessions
        /\ collab' = [collab EXCEPT ![canvasId] = conn]
        /\ calls' = [calls EXCEPT ![p] = Throw(call, "Error")]
        /\ UNCHANGED <<canvases, relations, dupRecords, userRows, objects,
                       esIndex, queue, entities>>

DeleteEntityNodesDisconnect(p, canvasId) ==
    /\ DenTask(p, canvasId, "disconnect")
    /\ collab' = DisconnectCollab(canvasId)
    /\ objects' = DisconnectObjects(canvasId)
    /\ calls' = [calls EXCEPT ![p].tasks[canvasId] = "updateMany"]
    /\ UNCHANGED <<canvases, relations, dupRecords, userRows, esIndex, queue,
                   entities>>

\* where: { canvasId, entityId: { in: ids }, entityType: { in: types }, deletedAt: null }
DeleteEntityNodesUpdate(p, canvasId) ==
    LET call == calls[p]
        rows == {r \in EntityRelations(call.req.entities) : r.canvasId = canvasId}
    IN  /\ DenTask(p, canvasId, "updateMany")
        /\ relations' = SoftDelete(rows)
        /\ calls' = [calls EXCEPT ![p] =
                        DenAfter(call, [call.tasks EXCEPT ![canvasId] = "done"])]
        /\ UNCHANGED <<canvases, dupRecords, userRows, objects, esIndex, queue,
                       collab, entities>>

\* ---------------------------------------------------------- autoNameCanvas
\* prisma.actionResult.findMany({ where: { targetId: canvasId, targetType: 'canvas' } })
ActionResults(canvasId) ==
    {e \in entities : e.entityType = "skillResponse" /\ e.targetId = canvasId}

\* The relation query without the deletedAt filter.
KnowledgeRelationIdsAll(canvasId) ==
    {r.entityId : r \in {x \in BagToSet(relations) :
                            /\ x.canvasId = canvasId
                            /\ x.entityType \in {"resource", "document"}}}

\* where: { canvasId, entityType: { in: ['resource', 'document'] }, deletedAt: null }
KnowledgeRelationIds(canvasId) ==
    {r.entityId : r \in {x \in LiveRelations(canvasId) :
                            x.entityType \in {"resource", "document"}}}

\* prisma.document.findMany({ where: { docId: { in: ids } } }), and resources
Knowledge(type, ids) ==
    {e \in entities : e.entityType = type /\ e.entityId \in ids}

AutoNameCanvasFind(p, uid, canvasId, directUpdate) ==
    LET req == [uid |-> uid, canvasId |-> canvasId, directUpdate |-> directUpdate]
        call == [op |-> "autoNameCanvas", req |-> req]
        canvas == FindCanvas(canvasId, uid)
    IN  /\ Free(p)
        /\ calls' = [calls EXCEPT ![p] =
              IF ~canvas.present THEN Throw(call, "NotFound")
              ELSE [op |-> "autoNameCanvas", pc |-> "findResults", req |-> req,
                    ids |-> {}, items |-> 0]]
        /\ UNCHANGED shared

\* contentItems: one item per action result.
AutoNameCanvasResults(p) ==
    LET call == calls[p]
        items == Cardinality(ActionResults(call.req.canvasId))
    IN  /\ call.op = "autoNameCanvas" /\ call.pc = "findResults"
        /\ calls' = [calls EXCEPT ![p] =
              [call EXCEPT !.items = items,
                           !.pc = IF items = 0 THEN "findRelations"
                                  ELSE "getDefaultModel"]]
        /\ UNCHANGED shared

AutoNameCanvasRelations(p) ==
    LET call == calls[p] IN
    /\ call.op = "autoNameCanvas" /\ call.pc = "findRelations"
    /\ calls' = [calls EXCEPT ![p] =
          [call EXCEPT !.ids = KnowledgeRelationIds(call.req.canvasId),
                       !.pc = "findDocuments"]]
    /\ UNCHANGED shared

AutoNameCanvasDocuments(p) ==
    LET call == calls[p] IN
    /\ call.op = "autoNameCanvas" /\ call.pc = "findDocuments"
    /\ calls' = [calls EXCEPT ![p] =
          [call EXCEPT !.items = Cardinality(Knowledge("document", call.ids)),
                       !.pc = "findResources"]]
    /\ UNCHANGED shared

\* if (contentItems.length === 0) return { title: '' }
AutoNameCanvasResources(p) ==
    LET call == calls[p]
        items == call.items + Cardinality(Knowledge("resource", call.ids))
    IN  /\ call.op = "autoNameCanvas" /\ call.pc = "findResources"
        /\ calls' = [calls EXCEPT ![p] =
              IF items = 0
              THEN [op |-> "autoNameCanvas", pc |-> "done",
                    result |-> [title |-> ""], modelCalls |-> 0, updated |-> FALSE]
              ELSE [call EXCEPT !.items = items, !.ids = {},
                                !.pc = "getDefaultModel"]]
        /\ UNCHANGED shared

\* subscriptionService.getDefaultModel()
AutoNameCanvasModel(p) ==
    LET call == calls[p] IN
    /\ call.op = "autoNameCanvas" /\ call.pc = "getDefaultModel"
    /\ calls' = [calls EXCEPT ![p].pc = "generateCanvasTitle"]
    /\ UNCHANGED shared

\* generateCanvasTitle returns newTitle; if (directUpdate && newTitle) the
\* title is applied with updateCanvas(user, { canvasId, title: newTitle }).
AutoNameCanvasGenerate(p, newTitle) ==
    LET call == calls[p] IN
    /\ call.op = "autoNameCanvas" /\ call.pc = "generateCanvasTitle"
    /\ calls' = [calls EXCEPT ![p] =
          IF call.req.directUpdate /\ newTitle # ""
          THEN [op |-> "autoNameCanvas", pc |-> "updateCanvas", req |-> call.req,
                newTitle |-> newTitle]
          ELSE [op |-> "autoNameCanvas", pc |-> "done",
                result |-> [title |-> newTitle], modelCalls |-> 2,
                updated |-> FALSE]]
    /\ UNCHANGED shared

AutoNameCanvasUpdate(p) ==
    LET call == calls[p]
        req == [uid |-> call.req.uid, canvasId |-> call.req.canvasId,
                title |-> call.newTitle, minimapStorageKey |-> UndefKey]
    IN  /\ call.op = "autoNameCanvas" /\ call.pc = "updateCanvas"
        /\ calls' = [calls EXCEPT ![p] = UpdateFound(req, call.req)]
        /\ UNCHANGED shared

\* ----------------------------------------------------------- initial states
\* Nodes a canvas may hold at the start: two documents, a resource, an AI
\* response, a memo (a type that is never forked).
NodePool ==
    {Node("document", Orig(1)), Node("resource", Orig(2)),
     Node("skillResponse", Orig(3)), Node("memo", Orig(4))}

RECURSIVE SeqsUpTo(_, _)
SeqsUpTo(S, n) ==
    IF n = 0 THEN {<<>>}
    ELSE LET shorter == SeqsUpTo(S, n - 1)
         IN  shorter \cup {Append(q, x) : q \in {r \in shorter : Len(r) = n - 1}, x \in S}

\* The downstream entities the nodes of the pool refer to.
PoolEntities ==
    {[entityId |-> n.entityId, entityType |-> n.type, forkOf |-> NoEntity,
      targetId |-> 0] : n \in {m \in NodePool : m.type \in DuplicableTypes}}

\* The store after createCanvas(uid, title) on canvas id 1, a client having
\* put `nodes` on the canvas and the relation rows being `rels`.
InitSeeded(uid, title, nodes, rels) ==
    /\ canvases = [c \in CanvasIds |->
          IF c = 1 THEN CreatedRow(uid, 1, title) ELSE NoCanvas]
    /\ objects = [k \in ObjectKeys |->
          IF k = StateKey(1)
          THEN EncodeStateAsUpdate([CreatedYDoc(title) EXCEPT !.nodes = nodes])
          ELSE NoBlob]
    /\ esIndex = [c \in CanvasIds |->
          IF c = 1 THEN IndexEntry(title, uid) ELSE NoEntry]
    /\ relations = rels
    /\ dupRecords = <<>>
    /\ userRows = Users
    /\ queue = {}
    /\ collab = [c \in CanvasIds |-> Closed]
    /\ entities = PoolEntities
    /\ calls = [p \in Procs |-> Idle]

\* The relation rows a reconciliation of `nodes` leaves for canvas 1.
SyncedRelations(nodes) ==
    SetToBag({Relation(1, n.entityId, n.type) : n \in {nodes[i] : i \in 1..Len(nodes)}})

\* ------------------------------------------------------------ specification
\* Canvas CRUD and duplication, one call after the other, from a store
\* holding one canvas of u1 with a document node and a memo node.
SeedNodes == <<Node("document", Orig(1)), Node("memo", Orig(4))>>

Init == InitSeeded("u1", "A", SeedNodes, SyncedRelations(SeedNodes))

Reads(p) ==
    \/ \E uid \in Users : ListCanvases(p, uid)
    \/ \E uid \in Users, c \in CanvasIds : GetCanvasDetail(p, uid, c)
    \/ \E uid \in Users, c \in CanvasIds : GetCanvasRawDataFind(p, uid, c)
    \/ GetCanvasRawDataLoad(p)

Creates(p) ==
    \/ \E uid \in Users, t \in Titles : CreateCanvasInsert(p, uid, t)
    \/ CreateCanvasSave(p)
    \/ CreateCanvasIndex(p)

UpdateSteps(p) ==
    \/ UpdateCanvasRow(p)
    \/ UpdateCanvasTransact(p)
    \/ UpdateCanvasDisconnect(p)
    \/ UpdateCanvasIndex(p)

AutoNameSteps(p) ==
    \/ AutoNameCanvasResults(p)
    \/ AutoNameCanvasRelations(p)
    \/ AutoNameCanvasDocuments(p)
    \/ AutoNameCanvasResources(p)
    \/ AutoNameCanvasModel(p)
    \/ \E t \in Titles \cup {""} : AutoNameCanvasGenerate(p, t)
    \/ AutoNameCanvasUpdate(p)

DeleteSteps(p) ==
    \/ DeleteCanvasFindRelations(p)
    \/ DeleteCanvasEnqueue(p)
    \/ DeleteCanvasRow(p)
    \/ DeleteCanvasIndex(p)
    \/ DeleteCanvasBlob(p)

DuplicateSteps(p) ==
    \/ DuplicateCanvasInsert(p)
    \/ DuplicateCanvasRecord(p)
    \/ DuplicateCanvasFindUser(p)
    \/ DuplicateCanvasFindSource(p)
    \/ DuplicateCanvasLoad(p)
    \/ DuplicateCanvasLinkFiles(p)
    \/ DuplicateCanvasPut(p)
    \/ DuplicateCanvasFinish(p)

Next ==
    \E p \in {"p1"} :
        \/ Reads(p)
        \/ Creates(p)
        \/ \E uid \in Users, c \in CanvasIds, t \in Titles :
              UpdateCanvasFind(p, uid, c, t, UndefKey)
        \/ UpdateSteps(p)
        \/ \E uid \in Users, c \in CanvasIds, all \in BOOLEAN :
              DeleteCanvasFind(p, uid, c, all)
        \/ DeleteSteps(p)
        \/ \E uid \in Users, c \in CanvasIds, direct \in BOOLEAN :
              AutoNameCanvasFind(p, uid, c, direct)
        \/ AutoNameSteps(p)
        \/ \E uid \in Users, c \in CanvasIds, t \in {Undef, "B"}, own \in BOOLEAN :
              DuplicateCanvasFind(p, uid, c, t, FALSE, own)
        \/ DuplicateSteps(p)

Spec == Init /\ [][Next]_vars


\* ------------------------------------------------- soft deletion (C1)
\* This step is the first step of a call of p to one of the operations ops.
Starts(p, ops) == Free(p) /\ calls'[p] # calls[p] /\ calls'[p].op \in ops

\* The call has raised CanvasNotFoundError.
NotFound(call) == call.pc = "failed" /\ call.error = "NotFound"

\* C1: whatever user lists, a canvas whose deletedAt is set is never in the
\* result of listCanvases, and getCanvasDetail on a canvas whose deletedAt
\* is set raises CanvasNotFoundError, its owner asking or anyone else.
C1_DeletedCanvasIsHidden ==
    [][\A p \in Procs :
          Starts(p, {"listCanvases", "getCanvasDetail"}) =>
              \A uid \in Users :
                  /\ ListCanvases(p, uid) =>
                        \A c \in calls'[p].result : ~canvases[c].deleted
                  /\ \A c \in CanvasIds :
                        ( /\ canvases[c].present /\ canvases[c].deleted
                          /\ GetCanvasDetail(p, uid, c) )
                        => NotFound(calls'[p])]_vars

\* A listing returned a live canvas of a user who also has a deleted one.
C1_Witness ==
    \E p \in Procs, c \in CanvasIds, d \in CanvasIds :
        /\ calls[p].op = "listCanvases" /\ calls[p].pc = "done"
        /\ canvases[c].present /\ canvases[c].deleted /\ c \notin calls[p].result
        /\ d \in calls[p].result /\ Live(canvases[d])
        /\ canvases[d].uid = canvases[c].uid

\* ------------------------------------------- create then read (C2)
\* C2: when createCanvas(owner, T) returns and no other operation has run
\* on the new canvas, getCanvasRawData(owner, its id) finds the canvas and
\* returns title T, nodes [] and edges []; a getCanvasRawData run without
\* interleaving returns what RawDataOf computes.
C2_CreatedCanvasReadsBack ==
    [][\A p \in Procs :
          /\ (calls[p].op = "createCanvas" /\ calls[p].pc = "upsertCanvas") =>
                \A uid \in Users, c \in CanvasIds, t \in Titles :
                    ( /\ calls[p].req = [uid |-> uid, title |-> t]
                      /\ calls[p].canvasId = c
                      /\ CreateCanvasIndex(p) )
                    => /\ FindCanvas(c, uid)'.present
                       /\ RawDataOf(uid, c)'.title = t
                       /\ RawDataOf(uid, c)'.nodes = <<>>
                       /\ RawDataOf(uid, c)'.edges = <<>>
          /\ (calls[p].op = "getCanvasRawData" /\ calls[p].pc = "getCanvasYDoc") =>
                \A uid \in Users, c \in CanvasIds :
                    ( /\ calls[p].req = [uid |-> uid, canvasId |-> c]
                      /\ GetCanvasRawDataLoad(p) )
                    => calls'[p].result = RawDataOf(uid, c)]_vars

\* getCanvasRawData returned title B and no nodes for a canvas u2 created
\* (the seeded canvas is u1's, and nothing was duplicated).
C2_Witness ==
    \E p \in Procs :
        /\ calls[p].op = "getCanvasRawData" /\ calls[p].pc = "done"
        /\ calls[p].result.ownerUid = "u2"
        /\ calls[p].result.title = "B"
        /\ calls[p].result.nodes = <<>> /\ calls[p].result.edges = <<>>
        /\ dupRecords = <<>>
        /\ \A c \in CanvasIds : Live(canvases[c]) /\ canvases[c].uid = "u2"
                                   => esIndex[c] = IndexEntry("B", "u2")

\* -------------------------------------------- no live owned row (C3)
NoLiveOwnedRow(uid, canvasId) ==
    ~(/\ canvases[canvasId].present
      /\ ~canvases[canvasId].deleted
      /\ canvases[canvasId].uid = uid)

\* C3: getCanvasDetail, getCanvasRawData, updateCanvas, deleteCanvas and
\* autoNameCanvas called with (owner, canvasId) for which no live row with
\* that owner exists raise CanvasNotFoundError and leave the canvas rows,
\* the object store, the search index and the queue as they were: a first
\* step of one of them either does so, or is no call on such a pair.
C3_NotFoundChangesNothing ==
    [][\A p \in Procs :
          Starts(p, {"getCanvasDetail", "getCanvasRawData", "updateCanvas",
                     "deleteCanvas", "autoNameCanvas"}) =>
              \/ /\ NotFound(calls'[p])
                 /\ UNCHANGED <<canvases, objects, esIndex, queue>>
              \/ \A uid \in Users, c \in CanvasIds :
                    NoLiveOwnedRow(uid, c) =>
                        CASE calls'[p].op = "getCanvasDetail" ->
                                 ~GetCanvasDetail(p, uid, c)
                          [] calls'[p].op = "getCanvasRawData" ->
                                 ~GetCanvasRawDataFind(p, uid, c)
                          [] calls'[p].op = "updateCanvas" ->
                                 \A t \in Titles : ~UpdateCanvasFind(p, uid, c, t, UndefKey)
                          [] calls'[p].op = "deleteCanvas" ->
                                 \A all \in BOOLEAN : ~DeleteCanvasFind(p, uid, c, all)
                          [] calls'[p].op = "autoNameCanvas" ->
                                 \A direct \in BOOLEAN :
                                     ~AutoNameCanvasFind(p, uid, c, direct)]_vars

\* A deleteCanvas has raised CanvasNotFoundError while a soft-deleted row
\* and a live row of another owner are in the store.
C3_Witness ==
    \E p \in Procs, c \in CanvasIds, d \in CanvasIds :
        /\ calls[p].op = "deleteCanvas" /\ NotFound(calls[p])
        /\ canvases[c].present /\ canvases[c].deleted
        /\ Live(canvases[d])

\* ------------------------------------- duplication: source lookup (C4)
\* C4: duplicateCanvas raises CanvasNotFoundError, inserting neither a
\* target row nor a DuplicateRecord, when the source is missing or
\* soft-deleted, or when checkOwnership is set and the source is another
\* user's; without checkOwnership a live source of any owner is accepted.
C4_DuplicateSourceLookup ==
    [][\A p \in Procs :
          Starts(p, {"duplicateCanvas"}) =>
              \A uid \in Users, c \in CanvasIds, t \in {Undef, "B"},
                 fork \in BOOLEAN, own \in BOOLEAN :
                  DuplicateCanvasFind(p, uid, c, t, fork, own) =>
                      IF \/ ~canvases[c].present
                         \/ canvases[c].deleted
                         \/ own /\ canvases[c].uid # uid
                      THEN /\ NotFound(calls'[p])
                           /\ UNCHANGED <<canvases, dupRecords>>
                      ELSE calls'[p].pc = "createCanvas"]_vars

\* u2 has duplicated a canvas of u1 to the end, and the target is ready.
C4_Witness ==
    \E p \in Procs :
        /\ calls[p].op = "duplicateCanvas" /\ calls[p].pc = "done"
        /\ calls[p].result.uid = "u2"
        /\ calls[p].dupRecord \in 1..Len(dupRecords)
        /\ canvases[dupRecords[calls[p].dupRecord].sourceId].uid = "u1"
        /\ canvases[calls[p].result.canvasId].status = "ready"

\* ---------------------------------------------- duplication specification
\* Duplications, one after the other, from a store holding a canvas of u1
\* with up to MaxNodes nodes; any awaited call of the copy body may reject.
DupNodePool ==
    {Node("document", Orig(1)), Node("skillResponse", Orig(3)), Node("memo", Orig(4))}

InitDup ==
    \E nodes \in SeqsUpTo(DupNodePool, MaxNodes) :
        InitSeeded("u1", "A", nodes, SyncedRelations(nodes))

NextDup ==
    \E p \in {"p1"} :
        \/ \E uid \in Users, c \in CanvasIds, t \in {Undef, "", "B"}, fork \in BOOLEAN :
              DuplicateCanvasFind(p, uid, c, t, fork, FALSE)
        \/ DuplicateSteps(p)
        \/ DuplicateCanvasFork(p)
        \/ DuplicateCanvasBodyFail(p)
        \/ DuplicateCanvasCatch(p)

SpecDup == InitDup /\ [][NextDup]_vars

\* ------------------------------------- duplication: the copy (C5, C6)
\* The step with which a duplication of p succeeds: the final transaction.
DupSucceeds(p) ==
    /\ calls[p].op = "duplicateCanvas" /\ calls[p].pc = "transaction"
    /\ DuplicateCanvasFinish(p)

\* The snapshot stored for a canvas row.
SnapshotOf(row) == objects[row.stateStorageKey]

\* C5: a duplicateCanvas without entity duplication that succeeds has
\* written a target snapshot whose node list is the source's (same length,
\* same order, every type and entityId as in the source), and the target
\* title, in the row and in the snapshot, is the requested title, or the
\* source title when none (undefined or empty) is given.
C5_CopyKeepsNodes ==
    [][\A p \in Procs :
          (DupSucceeds(p) /\ ~calls[p].req.duplicateEntities) =>
              LET req == calls[p].req
                  source == canvases[req.canvasId]
                  target == canvases'[calls[p].newCanvasId]
                  title == IF req.title \in {Undef, ""} THEN source.title ELSE req.title
              IN  /\ Decodable(objects'[target.stateStorageKey])
                  /\ objects'[target.stateStorageKey].nodes = SnapshotOf(source).nodes
                  /\ objects'[target.stateStorageKey].title = TextOf(title)
                  /\ target.title = title]_vars

\* A duplication titled B has ended with the two-or-more nodes of the source
\* (one of them of a type that can be forked) in the target's snapshot, and
\* no entity was created.
C5_Witness ==
    \E p \in Procs :
        /\ calls[p].op = "duplicateCanvas" /\ calls[p].pc = "done"
        /\ canvases[calls[p].result.canvasId].status = "ready"
        /\ canvases[calls[p].result.canvasId].title = "B"
        /\ LET nodes == SnapshotOf(canvases[calls[p].result.canvasId]).nodes
           IN  /\ Len(nodes) >= 2
               /\ nodes = SnapshotOf(canvases[1]).nodes
               /\ \E i \in 1..Len(nodes) : nodes[i].type \in DuplicableTypes
        /\ entities = PoolEntities

DenNodePool ==
    {Node("document", Orig(1)), Node("resource", Orig(1)), Node("resource", Orig(2))}

RECURSIVE Rotate(_, _)
Rotate(seq, n) ==
    IF n = 0 \/ seq = <<>> THEN seq ELSE Rotate(Tail(seq) \o <<Head(seq)>>, n - 1)

InitDen ==
    \E nodes \in {q \in SeqsUpTo(DenNodePool, ListLen) : Len(q) = ListLen} :
        /\ canvases = [c \in CanvasIds |-> CreatedRow("u1", c, "A")]
        /\ objects = [k \in ObjectKeys |->
              IF k.kind = "state"
              THEN EncodeStateAsUpdate(
                       [CreatedYDoc("A") EXCEPT !.nodes = Rotate(nodes, k.id - 1)])
              ELSE NoBlob]
        /\ esIndex = [c \in CanvasIds |-> IndexEntry("A", "u1")]
        /\ relations = SetToBag({Relation(c, nodes[i].entityId, nodes[i].type) :
                                    c \in CanvasIds, i \in 1..Len(nodes)})
        /\ dupRecords = <<>>
        /\ userRows = Users
        /\ queue = {}
        /\ collab = [c \in CanvasIds |-> Closed]
        /\ entities = PoolEntities
        /\ calls = [p \in Procs |-> Idle]

\* The entity lists deleteEntityNodesFromCanvases is called with.
DenGiven ==
    {{Entity(Orig(1), "document")},
     {Entity(Orig(1), "resource")},
     {Entity(Orig(1), "document"), Entity(Orig(2), "resource")}}

NextDen ==
    \E p \in {"p1"} :
        \/ \E given \in DenGiven : DeleteEntityNodesFind(p, given)
        \/ \E c \in CanvasIds : DeleteEntityNodesFindCanvas(p, c)
        \/ \E c \in CanvasIds : DeleteEntityNodesTransact(p, c)
        \/ \E c \in CanvasIds : DeleteEntityNodesDisconnect(p, c)
        \/ \E c \in CanvasIds : DeleteEntityNodesUpdate(p, c)

SpecDen == InitDen /\ [][NextDen]_vars

\* The node is one of the given (type, entityId) pairs.
IsGiven(node, given) ==
    \E e \in given : e.entityType = node.type /\ e.entityId = node.entityId

\* The list without the given nodes, the others in their order.
WithoutGiven(nodes, given) == SelectSeq(nodes, LAMBDA n : ~IsGiven(n, given))

\* A deleteEntityNodesFromCanvases call of p is running.
DenRunning(p) ==
    calls[p].op = "deleteEntityNodesFromCanvases" /\ calls[p].pc = "all"

\* C8: deleteEntityNodesFromCanvases(entities) takes up every canvas that
\* has a live relation row to one of the given entities and returns only
\* when each is done; on each it removes from the CRDT node list every node
\* whose (type, entityId) is one of the given pairs, however many there are
\* and wherever they stand, keeps every other node in its place in the
\* order, and stores the list so reduced when it closes the session.
C8_EntityNodesRemoved ==
    [][\A p \in Procs :
          /\ Starts(p, {"deleteEntityNodesFromCanvases"}) =>
                \A given \in DenGiven :
                    DeleteEntityNodesFind(p, given) =>
                        \A c \in CanvasIds :
                            (\E r \in BagToSet(relations) :
                                /\ r.canvasId = c /\ ~r.deleted
                                /\ \E e \in given : /\ e.entityId = r.entityId
                                                     /\ e.entityType = r.entityType)
                            => /\ DenRunning(p)'
                               /\ c \in DOMAIN calls'[p].tasks
                               /\ calls'[p].tasks[c] # "done"
          /\ DenRunning(p) =>
                \A c \in DOMAIN calls[p].tasks :
                    /\ DeleteEntityNodesTransact(p, c) =>
                          collab'[c].doc.nodes =
                              WithoutGiven(objects[StateKey(c)].nodes, calls[p].req.entities)
                    /\ DeleteEntityNodesDisconnect(p, c) =>
                          objects'[StateKey(c)].nodes = collab[c].doc.nodes
                    /\ (calls[p].tasks[c] # "done" /\ calls'[p] # calls[p]
                            /\ ~DenRunning(p)') =>
                          /\ DeleteEntityNodesUpdate(p, c)
                          /\ \A d \in DOMAIN calls[p].tasks \ {c} :
                                calls[p].tasks[d] = "done"]_vars

\* In a session of the call the first and the third node of a stored list
\* were removed and the second, which is none of the given, is what is left.
C8_Witness ==
    \E p \in Procs, c \in CanvasIds :
        /\ DenRunning(p)
        /\ c \in DOMAIN calls[p].tasks /\ calls[p].tasks[c] = "disconnect"
        /\ LET before == objects[StateKey(c)].nodes
               given == calls[p].req.entities
           IN  /\ Len(before) >= 3
               /\ IsGiven(before[1], given)
               /\ ~IsGiven(before[2], given)
               /\ IsGiven(before[3], given)
               /\ collab[c].doc.nodes = SubSeq(before, 2, 2)
                      \o WithoutGiven(SubSeq(before, 4, Len(before)), given)

\* ------------------------------------------ relation reconciliation (C9)
\* Canvas 1 holds up to MaxNodes different nodes; its relation rows are any
\* of: a row of the document, a row of the same entity id recorded as a
\* resource, a row of another resource, and rows soft-deleted earlier.
SyncNodePool == {Node("document", Orig(1)), Node("resource", Orig(2))}

SyncRowPool ==
    {Relation(1, Orig(1), "document"),
     Relation(1, Orig(1), "resource"),
     Relation(1, Orig(2), "resource"),
     [Relation(1, Orig(1), "document") EXCEPT !.deleted = TRUE],
     [Relation(1, Orig(2), "resource") EXCEPT !.deleted = TRUE]}

InitSync ==
    \E nodes \in {q \in SeqsUpTo(SyncNodePool, MaxNodes) :
                      \A i, j \in 1..Len(q) : q[i] = q[j] => i = j},
       rows \in SUBSET SyncRowPool :
        InitSeeded("u1", "A", nodes, SetToBag(rows))

NextSync ==
    \E p \in {"p1"} :
        \/ \E c \in CanvasIds : SyncFind(p, c)
        \/ SyncLoad(p)
        \/ SyncFindRelations(p)
        \/ SyncSoftDelete(p)
        \/ SyncCreate(p)

SpecSync == InitSync /\ [][NextSync]_vars

\* The (entityType, entityId) pairs of the nodes of the stored document.
NodePairs(canvasId) ==
    LET nodes == objects[StateKey(canvasId)].nodes
    IN  {Entity(nodes[i].entityId, nodes[i].type) : i \in 1..Len(nodes)}

\* The pairs of the live relation rows of the canvas.
LivePairs(canvasId) ==
    {Entity(r.entityId, r.entityType) : r \in LiveRelations(canvasId)}

\* C9: whatever the relation rows were (rows soft-deleted earlier, rows
\* whose entityId is a node's but whose entityType is not), once
\* syncCanvasEntityRelation(canvasId) has returned the live relation rows of
\* the canvas are the (entityType, entityId) pairs of the nodes of its CRDT
\* node list, one live row for each pair.  (Only canvas 1 has a row here,
\* so a call that returned was a call on canvas 1.)
C9_SyncMakesRowsEqualNodes ==
    \A p \in Procs :
        (calls[p].op = "syncCanvasEntityRelation" /\ calls[p].pc = "done") =>
            /\ LivePairs(1) = NodePairs(1)
            /\ \A r \in LiveRelations(1) : relations[r] = 1

\* ------------------------------------------- concurrent retitling (C10)
\* Two processes retitle, each call running step by step among the steps of
\* the other's, from a store holding one canvas of u1 titled T.
InitUpdate == InitSeeded("u1", "T", SeedNodes, SyncedRelations(SeedNodes))

NextUpdate ==
    \E p \in Procs :
        \/ \E uid \in Users, c \in CanvasIds, t \in Titles :
              UpdateCanvasFind(p, uid, c, t, UndefKey)
        \/ UpdateCanvasRow(p)
        \/ UpdateCanvasTransact(p)
        \/ UpdateCanvasDisconnect(p)
        \/ UpdateCanvasIndex(p)

SpecUpdate == InitUpdate /\ [][NextUpdate]_vars

\* The updateCanvas of p has returned the row of canvas c.
Updated(p, c) ==
    /\ calls[p].op = "updateCanvas" /\ calls[p].pc = "done"
    /\ calls[p].result.canvasId = c

\* C10: when two updateCanvas calls on the same canvas, with the titles A
\* and B, have run concurrently and both have returned, whatever the order
\* of their steps, no session is left open and the title text of the stored
\* CRDT document is exactly A or exactly B: nothing of the former title, and
\* not both.
C10_ConcurrentTitlesDoNotMix ==
    \A c \in CanvasIds :
        (Updated("p1", c) /\ Updated("p2", c)) =>
            /\ ~collab[c].open
            /\ objects[StateKey(c)].title \in
                   {TextOf(calls["p1"].result.title), TextOf(calls["p2"].result.title)}

\* Both calls have returned, one having set A and the other B, and the
\* stored title is the A of the call whose row update came first: the
\* relational row says B.
C10_Witness ==
    /\ Updated("p1", 1) /\ Updated("p2", 1)
    /\ calls["p1"].result.title = "A" /\ calls["p2"].result.title = "B"
    /\ canvases[1].title = "B"
    /\ objects[StateKey(1)].title = <<"A">>

\* ------------------------------------------------ automatic naming (C11)
\* An AI response recorded with canvas c as its target.
ResponseOn(c) ==
    [entityId |-> Orig(6), entityType |-> "skillResponse", forkOf |-> NoEntity,
     targetId |-> c]

\* Relation rows canvas 1 may have: to the document and the resource that
\* exist, live or soft-deleted, to a document that is gone, to an AI response.
NameRowPool ==
    {Relation(1, Orig(1), "document"),
     [Relation(1, Orig(1), "document") EXCEPT !.deleted = TRUE],
     Relation(1, Orig(2), "resource"),
     [Relation(1, Orig(2), "resource") EXCEPT !.deleted = TRUE],
     Relation(1, Orig(5), "document"),
     Relation(1, Orig(3), "skillResponse")}

InitName ==
    \E rows \in SUBSET NameRowPool, responses \in SUBSET {ResponseOn(1), ResponseOn(2)} :
        /\ canvases = [c \in CanvasIds |->
              IF c = 1 THEN CreatedRow("u1", 1, "A") ELSE NoCanvas]
        /\ objects = [k \in ObjectKeys |->
              IF k = StateKey(1) THEN EncodeStateAsUpdate(CreatedYDoc("A")) ELSE NoBlob]
        /\ esIndex = [c \in CanvasIds |->
              IF c = 1 THEN IndexEntry("A", "u1") ELSE NoEntry]
        /\ relations = SetToBag(rows)
        /\ dupRecords = <<>>
        /\ userRows = Users
        /\ queue = {}
        /\ collab = [c \in CanvasIds |-> Closed]
        /\ entities = PoolEntities \cup responses
        /\ calls = [p \in Procs |-> Idle]

NextName ==
    \E p \in {"p1"} :
        \/ \E uid \in Users, c \in CanvasIds, direct \in BOOLEAN :
              AutoNameCanvasFind(p, uid, c, direct)
        \/ AutoNameSteps(p)
        \/ UpdateSteps(p)

SpecName == InitName /\ [][NextName]_vars

\* No AI response targets the canvas, and no live document or resource
\* relation row of the canvas carries the id of a document or resource
\* that exists.
NothingToName(c) ==
    /\ ~\E e \in entities : e.entityType = "skillResponse" /\ e.targetId = c
    /\ ~\E r \in BagToSet(relations), e \in entities :
          /\ r.canvasId = c /\ ~r.deleted
          /\ r.entityType \in {"document", "resource"}
          /\ e.entityType \in {"document", "resource"}
          /\ e.entityId = r.entityId

\* C11: an autoNameCanvas call running on a live canvas that has no AI
\* response targeting it and no live relation to an existing document or
\* resource never reaches the default-model lookup, the title generator or
\* updateCanvas, whatever directUpdate says, and when it returns it returns
\* title "".
C11_EmptyCanvasIsNotNamed ==
    [][\A p \in Procs :
          ( /\ calls[p].op = "autoNameCanvas" /\ Running(p) /\ calls'[p] # calls[p]
            /\ Live(canvases[calls[p].req.canvasId])
            /\ NothingToName(calls[p].req.canvasId) )
              => /\ calls'[p].op = "autoNameCanvas"
                 /\ calls'[p].pc \in {"findRelations", "findDocuments",
                                       "findResources", "done"}
                 /\ calls'[p].pc = "done" =>
                       /\ calls'[p].result = [title |-> ""]
                       /\ calls'[p].modelCalls = 0
                       /\ ~calls'[p].updated]_vars

\* A call has returned "" without the model on a canvas whose only rows are
\* a soft-deleted row to the existing document, a live row to a document
\* that is gone and a live row to an AI response, while an AI response
\* targets another canvas.
C11_Witness ==
    \E p \in Procs :
        /\ calls[p].op = "autoNameCanvas" /\ calls[p].pc = "done"
        /\ calls[p].result = [title |-> ""] /\ calls[p].modelCalls = 0
        /\ BagToSet(relations) =
              {[Relation(1, Orig(1), "document") EXCEPT !.deleted = TRUE],
               Relation(1, Orig(5), "document"),
               Relation(1, Orig(3), "skillResponse")}
        /\ ResponseOn(2) \in entities /\ ResponseOn(1) \notin entities

\* --------------------------------------- live rows and snapshots (C12)
\* C12: in every reachable state, the states between the await points of
\* createCanvas, duplicateCanvas and deleteCanvas included, every canvas row
\* whose deletedAt is null has a state key under which the object store
\* holds a snapshot that decodes.
C12_LiveCanvasHasSnapshot ==
    \A c \in CanvasIds :
        Live(canvases[c]) =>
            /\ canvases[c].stateStorageKey # NoKey
            /\ Decodable(objects[canvases[c].stateStorageKey])

\* ------------------------------------------------- creation specification
\* Creations and reads, one call after the other, from an empty store; the
\* index upsert of a creation may reject.
InitEmpty ==
    /\ canvases = [c \in CanvasIds |-> NoCanvas]
    /\ objects = [k \in ObjectKeys |-> NoBlob]
    /\ esIndex = [c \in CanvasIds |-> NoEntry]
    /\ relations = EmptyBag
    /\ dupRecords = <<>>
    /\ userRows = Users
    /\ queue = {}
    /\ collab = [c \in CanvasIds |-> Closed]
    /\ entities = PoolEntities
    /\ calls = [p \in Procs |-> Idle]

NextCreate ==
    \E p \in {"p1"} :
        \/ Reads(p)
        \/ Creates(p)
        \/ CreateCanvasIndexFail(p)

SpecCreate == InitEmpty /\ [][NextCreate]_vars

\* ------------------------------------------ order of creation writes (C13)
\* C13: createCanvas writes the snapshot blob first, then the canvas row,
\* then the index entry: a step of createCanvas that inserts a row finds the
\* blob of the row stored, and a step that writes the index entry finds the
\* row inserted.
C13_CreateWritesBlobFirst ==
    [][\A p \in Procs :
          (calls'[p].op = "createCanvas" /\ calls'[p] # calls[p]) =>
              \A c \in CanvasIds :
                  /\ (~canvases[c].present /\ canvases'[c].present)
                        => Decodable(objects[StateKey(c)])
                  /\ (~esIndex[c].present /\ esIndex'[c].present)
                        => /\ canvases[c].present
                           /\ Decodable(objects[StateKey(c)])]_vars

\* ---------------------------------------- failed index upsert (C14)
\* The createCanvas of p has raised, its index upsert having failed.
CreateFailed(p) == calls[p].op = "createCanvas" /\ calls[p].pc = "failed"

\* C14: when the index upsert at the end of createCanvas fails, the row and
\* the blob are written and stay: the row is live, the blob decodes and the
\* index has no entry, and a listCanvases or a getCanvasRawData of the owner
\* that follows returns the canvas, with its title and no nodes.
C14_CanvasSurvivesIndexFailure ==
    /\ [](\A p \in Procs :
            CreateFailed(p) =>
                /\ Live(canvases[calls[p].canvasId])
                /\ Decodable(objects[StateKey(calls[p].canvasId)])
                /\ ~esIndex[calls[p].canvasId].present)
    /\ [][\A p \in Procs :
            (CreateFailed(p) /\ calls'[p] # calls[p]) =>
                LET c == calls[p].canvasId
                    uid == canvases[c].uid
                IN  /\ ListCanvases(p, uid) => c \in calls'[p].result
                    /\ GetCanvasRawDataFind(p, uid, c) =>
                          /\ calls'[p].pc = "getCanvasYDoc"
                          /\ RawDataOf(uid, c).title = canvases[c].title
                          /\ RawDataOf(uid, c).nodes = <<>>
                          /\ RawDataOf(uid, c).edges = <<>>]_vars

\* A listing of u2 has returned two canvases, none of which is in the index.
C14_Witness ==
    \E p \in Procs :
        /\ calls[p].op = "listCanvases" /\ calls[p].pc = "done"
        /\ Cardinality(calls[p].result) = 2
        /\ \A c \in calls[p].result :
              /\ canvases[c].uid = "u2" /\ ~esIndex[c].present
              /\ Decodable(objects[StateKey(c)])

\* ------------------------------------------------- deletion specification
\* Deletions, one after the other, from a store in which every canvas id has
\* a row, canvas 2 of u2 and the others of u1, canvas 2 with or without a
\* state key; canvas 1 and canvas 2 may be related to the same document.
DeleteRowPool ==
    {Relation(1, Orig(1), "document"),
     Relation(1, Orig(2), "resource"),
     [Relation(1, Orig(5), "document") EXCEPT !.deleted = TRUE],
     Relation(2, Orig(1), "document")}

InitDelete ==
    \E rows \in SUBSET DeleteRowPool, key2 \in {NoKey, StateKey(2)} :
        /\ canvases = [c \in CanvasIds |->
              IF c = 2 THEN CanvasRow("u2", 2, "B", DefaultStatus, key2)
              ELSE CreatedRow("u1", c, "A")]
        /\ objects = [k \in ObjectKeys |->
              IF k.kind = "state" /\ (k.id = 2 => key2 # NoKey)
              THEN EncodeStateAsUpdate(CreatedYDoc(IF k.id = 2 THEN "B" ELSE "A"))
              ELSE NoBlob]
        /\ esIndex = [c \in CanvasIds |->
              IF c = 2 THEN IndexEntry("B", "u2") ELSE IndexEntry("A", "u1")]
        /\ relations = SetToBag(rows)
        /\ dupRecords = <<>>
        /\ userRows = Users
        /\ queue = {}
        /\ collab = [c \in CanvasIds |-> Closed]
        /\ entities = PoolEntities
        /\ calls = [p \in Procs |-> Idle]

NextDelete ==
    \E p \in {"p1"} :
        \/ \E uid \in Users, c \in CanvasIds, all \in BOOLEAN :
              DeleteCanvasFind(p, uid, c, all)
        \/ DeleteSteps(p)

SpecDelete == InitDelete /\ [][NextDelete]_vars

\* A deleteCanvas of p is running.
DeleteRunning(p) == calls[p].op = "deleteCanvas" /\ Running(p)

\* ------------------------------------------- what a deletion leaves (C15)
\* C15: when deleteCanvas(owner, canvasId) returns, the row of the canvas
\* has deletedAt set, the search index has no entry for the canvas and the
\* object store has no blob under the state key of the canvas.
C15_DeletedCanvasIsCleanedUp ==
    [][\A p \in Procs :
          (DeleteRunning(p) /\ calls'[p].pc = "done") =>
              LET c == calls[p].req.canvasId
                  key == calls[p].canvas.stateStorageKey
              IN  /\ canvases'[c].present /\ canvases'[c].deleted
                  /\ ~esIndex'[c].present
                  /\ key # NoKey => objects'[key] = NoBlob]_vars

\* A deletion has returned: a canvas of u1 is soft-deleted, out of the index
\* and without its blob, and the canvas of u2 is as it was.
C15_Witness ==
    \E p \in Procs, c \in CanvasIds :
        /\ calls[p].op = "deleteCanvas" /\ calls[p].pc = "done"
        /\ canvases[c].deleted /\ canvases[c].uid = "u1"
        /\ ~esIndex[c].present /\ objects[StateKey(c)] = NoBlob
        /\ Live(canvases[2]) /\ esIndex[2].present
        /\ Decodable(objects[StateKey(2)])

\* ------------------------------------------- cascading deletion jobs (C16)
\* C16: deleteCanvas with deleteAllFiles hands the queue, for every live
\* relation row of the canvas, a job whose id is the row's entityId, whose
\* payload is the uid of the canvas owner, the entityId and the entityType,
\* and whose retry budget is 3; it returns only when each is in the queue (a
\* job whose id is queued already is the queue's to drop).  Without
\* deleteAllFiles it enqueues nothing.  Either way the relation rows stay
\* as they are.
C16_DeleteAllFilesEnqueuesJobs ==
    [][\A p \in Procs :
          (DeleteRunning(p) /\ calls'[p] # calls[p]) =>
              LET call == calls[p]
                  c == call.req.canvasId
                  rows == {r \in BagToSet(relations) : r.canvasId = c /\ ~r.deleted}
                  wanted == {[jobId |-> r.entityId, uid |-> canvases[c].uid,
                              entityId |-> r.entityId, entityType |-> r.entityType,
                              attempts |-> 3] : r \in rows}
              IN  /\ relations' = relations
                  /\ IF call.req.deleteAllFiles
                     THEN /\ (call.pc = "findRelations" /\ calls'[p].pc = "all")
                                => calls'[p].jobs = wanted
                          /\ call.pc = "all" =>
                                \A j \in call.jobs :
                                    \/ DeleteRunning(p)' /\ j \in calls'[p].jobs
                                    \/ j \in queue'
                                    \/ \E k \in queue : k.jobId = j.jobId
                          /\ queue \subseteq queue'
                     ELSE call.jobs = {} /\ queue' = queue]_vars

\* A deletion of canvas 1 with deleteAllFiles has returned: the queue holds
\* the jobs of its two live rows, with u1 and three attempts, and none for
\* the row that was soft-deleted before.
C16_Witness ==
    \E p \in Procs :
        /\ calls[p].op = "deleteCanvas" /\ calls[p].pc = "done"
        /\ canvases[1].deleted
        /\ [Relation(1, Orig(5), "document") EXCEPT !.deleted = TRUE]
               \in BagToSet(relations)
        /\ queue = {[jobId |-> Orig(1), uid |-> "u1", entityId |-> Orig(1),
                     entityType |-> "document", attempts |-> 3],
                    [jobId |-> Orig(2), uid |-> "u1", entityId |-> Orig(2),
                     entityType |-> "resource", attempts |-> 3]}

\* -------------------------------------------------- minimap replacement (C17)
\* Updates, one after the other, of a canvas of u1 that has minimap m1 or
\* none, the images m1 and m2 uploaded; the relational update may fail.
InitMinimap ==
    \E minimap \in {NoKey, MinimapKey("m1")} :
        /\ canvases = [c \in CanvasIds |->
              IF c = 1
              THEN [CreatedRow("u1", 1, "A") EXCEPT !.minimapStorageKey = minimap]
              ELSE NoCanvas]
        /\ objects = [k \in ObjectKeys |->
              IF k = StateKey(1) THEN EncodeStateAsUpdate(CreatedYDoc("A"))
              ELSE IF k.kind = "minimap" THEN ImageBlob ELSE NoBlob]
        /\ esIndex = [c \in CanvasIds |->
              IF c = 1 THEN IndexEntry("A", "u1") ELSE NoEntry]
        /\ relations = EmptyBag
        /\ dupRecords = <<>>
        /\ userRows = Users
        /\ queue = {}
        /\ collab = [c \in CanvasIds |-> Closed]
        /\ entities = PoolEntities
        /\ calls = [p \in Procs |-> Idle]

\* The minimap keys a request carries: none, the empty key, m1, m2.
MinimapInputs == {UndefKey, NoKey} \cup {MinimapKey(m) : m \in MinimapIds}

NextMinimap ==
    \E p \in {"p1"} :
        \/ \E uid \in Users, c \in CanvasIds, t \in {Undef, "B"}, k \in MinimapInputs :
              UpdateCanvasFind(p, uid, c, t, k)
        \/ UpdateSteps(p)
        \/ UpdateCanvasRowFail(p)
        \/ UpdateCanvasRemoveMinimap(p)

SpecMinimap == InitMinimap /\ [][NextMinimap]_vars

\* C17: a minimap blob leaves the object store only in a step of an
\* updateCanvas whose relational update has committed, that was given a
\* minimap key, and whose key is not the previous one, the blob removed
\* being the previous minimap; an updateCanvas whose relational update
\* fails removes nothing and ends.
C17_MinimapRemovedAfterCommit ==
    [][/\ \A k \in {MinimapKey(m) : m \in MinimapIds} :
            (objects[k] # NoBlob /\ objects'[k] = NoBlob) =>
                \E p \in Procs :
                    /\ calls[p].op = "updateCanvas" /\ calls[p].pc = "removeObject"
                    /\ calls'[p] # calls[p]
                    /\ k = calls[p].originalMinimap
                    /\ calls[p].req.minimapStorageKey # UndefKey
                    /\ calls[p].req.minimapStorageKey # k
                    /\ calls[p].updatedCanvas.present
                    /\ canvases[calls[p].req.canvasId].minimapStorageKey
                           = calls[p].req.minimapStorageKey
       /\ \A p \in Procs :
            ( /\ calls[p].op = "updateCanvas" /\ calls[p].pc = "update"
              /\ calls'[p].pc = "failed" )
            => /\ objects' = objects
               /\ canvases' = canvases]_vars

\* An update has returned that replaced minimap m1 by m2: the row points
\* at m2, whose image is there, and the image of m1 is gone.
C17_Witness ==
    \E p \in Procs :
        /\ calls[p].op = "updateCanvas" /\ calls[p].pc = "done"
        /\ calls[p].result.minimapStorageKey = MinimapKey("m2")
        /\ canvases[1].minimapStorageKey = MinimapKey("m2")
        /\ objects[MinimapKey("m2")] = ImageBlob
        /\ objects[MinimapKey("m1")] = NoBlob

\* ------------------------------------------------ unreadable snapshots (C18)
\* Reads of a canvas of u1 titled A whose row has a state key or none, and
\* under whose key there is nothing, an empty object, bytes that are no
\* CRDT update, or a document titled B with up to MaxNodes nodes.
ReadBlobs ==
    {NoBlob, EmptyBlob, CorruptBlob}
        \cup {EncodeStateAsUpdate([title |-> <<"B">>, nodes |-> nodes, edges |-> <<>>]) :
                 nodes \in SeqsUpTo(NodePool, MaxNodes)}

InitRead ==
    \E key \in {NoKey, StateKey(1)}, blob \in ReadBlobs :
        /\ canvases = [c \in CanvasIds |->
              IF c = 1 THEN CanvasRow("u1", 1, "A", DefaultStatus, key) ELSE NoCanvas]
        /\ objects = [k \in ObjectKeys |-> IF k = StateKey(1) THEN blob ELSE NoBlob]
        /\ esIndex = [c \in CanvasIds |->
              IF c = 1 THEN IndexEntry("A", "u1") ELSE NoEntry]
        /\ relations = EmptyBag
        /\ dupRecords = <<>>
        /\ userRows = Users
        /\ queue = {}
        /\ collab = [c \in CanvasIds |-> Closed]
        /\ entities = PoolEntities
        /\ calls = [p \in Procs |-> Idle]

NextRead == \E p \in {"p1"} : Reads(p)

SpecRead == InitRead /\ [][NextRead]_vars

\* C18: getCanvasYDoc raises on no input: for an empty key, a missing blob,
\* an empty blob or a blob that does not decode it returns null, and the
\* getCanvasRawData that called it on a live canvas returns the title of
\* the row, nodes [] and edges [].
C18_UnreadableSnapshotReadsEmpty ==
    [][\A p \in Procs :
          ( /\ calls[p].op = "getCanvasRawData" /\ calls[p].pc = "getCanvasYDoc"
            /\ calls'[p] # calls[p] )
          => LET key == calls[p].canvas.stateStorageKey
                 unreadable ==
                     \/ key = NoKey
                     \/ objects[key].kind \in {"missing", "empty", "corrupt"}
             IN  /\ calls'[p].pc = "done"
                 /\ unreadable =>
                       /\ GetCanvasYDoc(key).isNull
                       /\ calls'[p].result.title = calls[p].canvas.title
                       /\ calls'[p].result.nodes = <<>>
                       /\ calls'[p].result.edges = <<>>]_vars

\* getCanvasRawData has returned title A and no nodes for the canvas whose
\* state key holds bytes that do not decode.
C18_Witness ==
    \E p \in Procs :
        /\ calls[p].op = "getCanvasRawData" /\ calls[p].pc = "done"
        /\ canvases[1].stateStorageKey = StateKey(1)
        /\ objects[StateKey(1)] = CorruptBlob
        /\ calls[p].result.title = "A"
        /\ calls[p].result.nodes = <<>> /\ calls[p].result.edges = <<>>

\* ------------------------------------------ record and target row (C19)
\* C19: the DuplicateRecord is created atomically with the target row: in
\* no reachable state is there a canvas row with status duplicating that
\* no DuplicateRecord has as its targetId.
C19_DuplicatingRowHasRecord ==
    \A c \in CanvasIds :
        (canvases[c].present /\ canvases[c].status = "duplicating") =>
            \E k \in 1..Len(dupRecords) : dupRecords[k].targetId = c

\* ------------------------------------------- lifecycle of a record (C20)
\* Duplications as in SpecDup, from stores in which any of the users may
\* have no row in the user table.
InitDupUser ==
    \E nodes \in SeqsUpTo(DupNodePool, MaxNodes), rows \in SUBSET Users :
        /\ canvases = [c \in CanvasIds |->
              IF c = 1 THEN CreatedRow("u1", 1, "A") ELSE NoCanvas]
        /\ objects = [k \in ObjectKeys |->
              IF k = StateKey(1)
              THEN EncodeStateAsUpdate([CreatedYDoc("A") EXCEPT !.nodes = nodes])
              ELSE NoBlob]
        /\ esIndex = [c \in CanvasIds |->
              IF c = 1 THEN IndexEntry("A", "u1") ELSE NoEntry]
        /\ relations = SyncedRelations(nodes)
        /\ dupRecords = <<>>
        /\ userRows = rows
        /\ queue = {}
        /\ collab = [c \in CanvasIds |-> Closed]
        /\ entities = PoolEntities
        /\ calls = [p \in Procs |-> Idle]

SpecDupUser == InitDupUser /\ [][NextDup]_vars

TerminalStatus == {"finish", "failed"}

\* C20: a DuplicateRecord starts pending; the duplicateCanvas call that
\* created it ends, by returning or by raising, with the record finish or
\* failed; and a record that is finish or failed never changes again.
C20_RecordEndsTerminal ==
    [][/\ Len(dupRecords') > Len(dupRecords)
             => dupRecords'[Len(dupRecords')].status = "pending"
       /\ \A k \in 1..Len(dupRecords) :
             dupRecords[k].status \in TerminalStatus
                 => dupRecords'[k].status = dupRecords[k].status
       /\ \A p \in Procs :
             ( /\ calls[p].op = "duplicateCanvas" /\ Running(p)
               /\ calls[p].dupRecord # 0
               /\ ~Running(p)' )
             => dupRecords'[calls[p].dupRecord].status \in TerminalStatus]_vars

\* ------------------------------------------ ready and finish together (C21)
\* C21: the target row and the DuplicateRecord reach success together: in
\* every state the target of a record is ready exactly when the record is
\* finish, and a final transaction that fails changes neither.
C21_ReadyAndFinishTogether ==
    /\ [](\A k \in 1..Len(dupRecords) :
            canvases[dupRecords[k].targetId].status = "ready"
                <=> dupRecords[k].status = "finish")
    /\ [][\A p \in Procs :
            ( /\ calls[p].op = "duplicateCanvas" /\ calls[p].pc = "transaction"
              /\ calls'[p].pc = "catch" )
            => /\ canvases' = canvases
               /\ dupRecords' = dupRecords]_vars

\* A duplication has returned with its target ready and its record finish,
\* the copy written under the target's state key.
C21_Witness ==
    \E p \in Procs :
        /\ calls[p].op = "duplicateCanvas" /\ calls[p].pc = "done"
        /\ calls[p].dupRecord \in 1..Len(dupRecords)
        /\ dupRecords[calls[p].dupRecord].status = "finish"
        /\ dupRecords[calls[p].dupRecord].targetId = calls[p].result.canvasId
        /\ canvases[calls[p].result.canvasId].status = "ready"
        /\ Decodable(objects[StateKey(calls[p].result.canvasId)])

\* --------------------------------------------------- concurrency caps (C22)
\* A store with more to do than the caps allow at once: canvas 1 holds
\* ForkLimit + MaxNodes + 1 nodes, all but one of a type that is forked, and
\* CanvasLimit + 1 canvases (canvas 1 and the ids after those genCanvasID
\* draws from) hold a node of the document that is removed.
LimitCanvasIds == 1..(MaxCanvases + CanvasLimit)
LimitHolders == {1} \cup ((MaxCanvases + 1)..(MaxCanvases + CanvasLimit))

LimitNodes ==
    [i \in 1..(ForkLimit + MaxNodes + 1) |->
        IF i = 2 THEN Node("memo", Orig(4))
        ELSE Node(IF i % 2 = 1 THEN "document" ELSE "resource", Orig(10 + i))]

LimitGiven == {Entity(Orig(11), "document")}

InitLimit ==
    /\ canvases = [c \in LimitCanvasIds |->
          IF c \in LimitHolders THEN CreatedRow("u1", c, "A") ELSE NoCanvas]
    /\ objects = [k \in ObjectKeys \cup {StateKey(c) : c \in LimitCanvasIds} |->
          IF k = StateKey(1)
          THEN EncodeStateAsUpdate([CreatedYDoc("A") EXCEPT !.nodes = LimitNodes])
          ELSE IF k.kind = "state" /\ k.id \in LimitHolders
          THEN EncodeStateAsUpdate(
                   [CreatedYDoc("A") EXCEPT !.nodes = <<LimitNodes[1]>>])
          ELSE NoBlob]
    /\ esIndex = [c \in LimitCanvasIds |->
          IF c \in LimitHolders THEN IndexEntry("A", "u1") ELSE NoEntry]
    /\ relations = SetToBag({Relation(c, Orig(11), "document") : c \in LimitHolders})
    /\ dupRecords = <<>>
    /\ userRows = Users
    /\ queue = {}
    /\ collab = [c \in LimitCanvasIds |-> Closed]
    /\ entities = PoolEntities
    /\ calls = [p \in Procs |-> Idle]

NextLimit ==
    \E p \in {"p1"} :
        \/ \E uid \in Users : DuplicateCanvasFind(p, uid, 1, Undef, TRUE, FALSE)
        \/ DuplicateSteps(p)
        \/ DuplicateCanvasFork(p)
        \/ DeleteEntityNodesFind(p, LimitGiven)
        \/ \E c \in LimitCanvasIds : DeleteEntityNodesFindCanvas(p, c)
        \/ \E c \in LimitCanvasIds : DeleteEntityNodesTransact(p, c)
        \/ \E c \in LimitCanvasIds : DeleteEntityNodesDisconnect(p, c)
        \/ \E c \in LimitCanvasIds : DeleteEntityNodesUpdate(p, c)

SpecLimit == InitLimit /\ [][NextLimit]_vars

\* The canvases whose task has a session open or its relation update pending.
InProcess(tasks) ==
    {c \in DOMAIN tasks : tasks[c] \in {"openDirectConnection", "disconnect",
                                         "updateMany"}}

\* C22: while a duplicateCanvas forks entities, at most 5 calls to the
\* downstream services are in flight, and while a
\* deleteEntityNodesFromCanvases runs, at most 3 canvases are being
\* processed, however many nodes and canvases there are.
C22_ConcurrencyCaps ==
    \A p \in Procs :
        /\ (calls[p].op = "duplicateCanvas" /\ calls[p].pc = "fork") =>
              Cardinality(ForkInFlight(calls[p].nodes, calls[p].forked)) <= 5
        /\ DenRunning(p) => Cardinality(InProcess(calls[p].tasks)) <= 3

\* Five forks are in flight, one has finished and a node of a type that is
\* forked is still waiting for its turn.
C22_Witness ==
    \E p \in Procs :
        /\ calls[p].op = "duplicateCanvas" /\ calls[p].pc = "fork"
        /\ Cardinality(ForkInFlight(calls[p].nodes, calls[p].forked)) = 5
        /\ \E i \in calls[p].forked : calls[p].nodes[i].type \in DuplicableTypes
        /\ \E i \in 1..Len(calls[p].nodes) :
              /\ i \notin ForkStarted(calls[p].nodes, calls[p].forked)
              /\ calls[p].nodes[i].type \in DuplicableTypes

\* ------------------------------------------------- sessions are closed (C23)
\* Retitlings and node removals, one call after the other, on the seeded
\* canvas; the transact block of a session may raise.
NextSession ==
    \E p \in {"p1"} :
        \/ \E uid \in Users, c \in CanvasIds, t \in Titles :
              UpdateCanvasFind(p, uid, c, t, UndefKey)
        \/ UpdateSteps(p)
        \/ UpdateCanvasTransactFail(p)
        \/ DeleteEntityNodesFind(p, {Entity(Orig(1), "document")})
        \/ \E c \in CanvasIds : DeleteEntityNodesFindCanvas(p, c)
        \/ \E c \in CanvasIds : DeleteEntityNodesTransact(p, c)
        \/ \E c \in CanvasIds : DeleteEntityNodesTransactFail(p, c)
        \/ \E c \in CanvasIds : DeleteEntityNodesDisconnect(p, c)
        \/ \E c \in CanvasIds : DeleteEntityNodesUpdate(p, c)

SpecSession == Init /\ [][NextSession]_vars

\* C23: every session updateCanvas or deleteEntityNodesFromCanvases opens
\* is closed on every path, the paths on which the transact block raises
\* included: when no call is running, no session is open.
C23_NoSessionLeftOpen ==
    (\A p \in Procs : ~Running(p)) => \A c \in CanvasIds : ~collab[c].open

\* ------------------------------------------- index and row titles (C25)
\* No call is running and none has raised.
AllSucceeded == \A p \in Procs : calls[p].pc \in {"idle", "done"}

\* C25: once every updateCanvas call on a live canvas has completed
\* successfully, the calls that ran concurrently included, the title of
\* the canvas in the search index is the title of its relational row.
C25_IndexTitleFollowsRow ==
    AllSucceeded =>
        \A c \in CanvasIds :
            Live(canvases[c]) =>
                /\ esIndex[c].present
                /\ esIndex[c].title = canvases[c].title

\* ------------------------------------------- row and CRDT titles (C29)
\* C29: once every createCanvas, updateCanvas and duplicateCanvas call that
\* touches a live canvas has completed successfully, the updateCanvas calls
\* that ran concurrently included, the title text of the CRDT document of
\* the canvas is the title of its relational row.
C29_DocumentTitleFollowsRow ==
    AllSucceeded =>
        \A c \in CanvasIds :
            Live(canvases[c]) =>
                objects[StateKey(c)].title = TextOf(canvases[c].title)

\* --------------------------------------- soft-deleted relation rows (C26)
\* The live relation rows.
LiveRows(rels) == {r \in BagToSet(rels) : ~r.deleted}

\* The (entityId, entityType) pair of the row is one of the given pairs.
PairGiven(r, given) ==
    \E e \in given : e.entityId = r.entityId /\ e.entityType = r.entityType

\* C26: the relation update of deleteEntityNodesFromCanvases(entities) on a
\* canvas it processed soft-deletes exactly the live relation rows of that
\* canvas whose (entityId, entityType) pair is one of the given pairs; a
\* row whose entityId is that of one given entity and whose entityType is
\* that of another, its pair not being given, stays live.
C26_GivenPairsSoftDeleted ==
    [][\A p \in Procs :
          DenRunning(p) =>
              \A c \in DOMAIN calls[p].tasks :
                  (calls[p].tasks[c] = "updateMany" /\ DeleteEntityNodesUpdate(p, c)) =>
                      LiveRows(relations) \ LiveRows(relations') =
                          {r \in LiveRows(relations) :
                              /\ r.canvasId = c
                              /\ PairGiven(r, calls[p].req.entities)}]_vars

\* ------------------------------------- what a normal return means (C27)
\* C27: whenever duplicateCanvas has returned without raising, the stored
\* target row is ready, its DuplicateRecord is finish and a CRDT snapshot
\* is written under the state key of the target.
C27_ReturnedDuplicateIsReady ==
    \A p \in Procs :
        (calls[p].op = "duplicateCanvas" /\ calls[p].pc = "done") =>
            LET target == calls[p].result.canvasId IN
            /\ canvases[target].status = "ready"
            /\ dupRecords[calls[p].dupRecord].status = "finish"
            /\ Decodable(objects[StateKey(target)])

\* --------------------------------------- the source of a duplication (C30)
\* The relation rows of a canvas, with their multiplicities.
RowsOf(rels, canvasId) ==
    [r \in {x \in BagToSet(rels) : x.canvasId = canvasId} |-> rels[r]]

\* C30: no step of a duplicateCanvas call, the call succeeding or failing,
\* changes the source: its relational row, the blob under its state key
\* and its relation rows stay as they are; the target is another canvas
\* and its state key is not the source's.
C30_SourceUntouched ==
    [][\A p \in Procs :
          (calls[p].op = "duplicateCanvas" /\ Running(p)) =>
              LET source == calls[p].req.canvasId
                  target == calls[p].newCanvasId
              IN  /\ canvases'[source] = canvases[source]
                  /\ objects'[StateKey(source)] = objects[StateKey(source)]
                  /\ objects'[canvases[source].stateStorageKey]
                        = objects[canvases[source].stateStorageKey]
                  /\ RowsOf(relations', source) = RowsOf(relations, source)
                  /\ target # source
                  /\ canvases'[target].present =>
                        canvases'[target].stateStorageKey
                            # canvases[source].stateStorageKey]_vars

\* A duplication titled B of canvas 1, whose title is A, has returned: the
\* row of canvas 1, its snapshot of MaxNodes nodes and its relation rows are
\* those of the start, and the copy is under the key of another canvas.
C30_Witness ==
    \E p \in Procs :
        /\ calls[p].op = "duplicateCanvas" /\ calls[p].pc = "done"
        /\ calls[p].result.canvasId # 1
        /\ canvases[calls[p].result.canvasId].status = "ready"
        /\ objects[canvases[calls[p].result.canvasId].stateStorageKey].title = TextOf("B")
        /\ canvases[1] = CreatedRow("u1", 1, "A")
        /\ objects[StateKey(1)].title = TextOf("A")
        /\ Len(objects[StateKey(1)].nodes) = MaxNodes
        /\ relations = SyncedRelations(objects[StateKey(1)].nodes)
        /\ relations # EmptyBag

\* --------------------------------- writes beside a session (C24, C28)
\* A duplication of canvas 1 by p1 while p2 updates and deletes canvases,
\* the target of the duplication among them, from the seeded store.
NextRace ==
    \/ \E uid \in Users : DuplicateCanvasFind("p1", uid, 1, "B", FALSE, FALSE)
    \/ DuplicateSteps("p1")
    \/ \E uid \in Users, c \in CanvasIds, t \in Titles :
          UpdateCanvasFind("p2", uid, c, t, UndefKey)
    \/ UpdateSteps("p2")
    \/ \E uid \in Users, c \in CanvasIds, all \in BOOLEAN :
          DeleteCanvasFind("p2", uid, c, all)
    \/ DeleteSteps("p2")

SpecRace == Init /\ [][NextRace]_vars

\* C24: every write of the service to the CRDT state of a canvas that has a
\* live row is made in an opened session of that canvas: a step that stores
\* a blob under the state key of such a canvas is the close of a session,
\* storing the session's document; the blob is never written directly,
\* least of all while a session on the canvas is open.
C24_WritesInsideSession ==
    [][\A c \in CanvasIds :
          ( /\ Live(canvases[c])
            /\ objects'[StateKey(c)] # objects[StateKey(c)]
            /\ objects'[StateKey(c)] # NoBlob )
          => /\ collab[c].open
             /\ objects'[StateKey(c)] = EncodeStateAsUpdate(collab[c].doc)
             /\ collab'[c] # collab[c]]_vars

\* C28: once deleteCanvas has completed for a canvas, the row soft-deleted
\* and no deleteCanvas of it running, the object store holds no blob under
\* the state key of the canvas, whatever ran beside the delete or after it.
C28_DeletedCanvasHasNoBlob ==
    \A c \in CanvasIds :
        ( /\ canvases[c].present /\ canvases[c].deleted
          /\ \A p \in Procs :
                ~(Running(p) /\ calls[p].op = "deleteCanvas"
                             /\ calls[p].req.canvasId = c) )
        => objects[canvases[c].stateStorageKey] = NoBlob

=============================================================================
